---- MODULE Spec2Model ----
(***************************************************************************)
(* Model of the guardiant-backend mode state machine, alert store and      *)
(* command dispatcher (functions/src/service/alerts.ts and the callable    *)
(* endpoints of functions/src/index.ts).                                   *)
(*                                                                         *)
(* One user document and its security_alerts sub-collection are the shared *)
(* state.  Every callable runs as a request process; each `await` of the   *)
(* source is one atomic step, so concurrent requests interleave exactly at *)
(* the awaits.  Timestamp.now() is the request clock: requests are stamped *)
(* in the order in which they start.                                       *)
(*                                                                         *)
(* The PIN operations of ConfigService (savePins, verifyPin and its two    *)
(* logging helpers) run under their own specification, SpecPin, in which   *)
(* the owner's pair of PINs is drawn at the start and verifyPin is called  *)
(* with every kind of PIN.  Writes to the store may be rejected wherever   *)
(* the source awaits one; reads are taken to succeed.                      *)
(*                                                                         *)
(* The phone verification callables (sendVerificationSms, verifySmscode)   *)
(* run under SpecOtp.  They read the wall clock, which advances by itself; *)
(* one unit of it is the ten minutes a code stays valid.                   *)
(*                                                                         *)
(* getSecurityAlerts runs under SpecListed, whose user starts with some    *)
(* unresolved alerts left by earlier triggers.  Alert documents get        *)
(* auto-generated names, so the order in which an unordered query walks    *)
(* them is not fixed by the order of their creation.                       *)
(*                                                                         *)
(* Everywhere else the caller is authenticated.  SpecAuth adds the calls   *)
(* that arrive without context.auth, and the callables of                  *)
(* service/security.ts, which test the caller's identity by themselves;    *)
(* blockDeviceRemotely takes the user it acts on from the request data, so *)
(* a second user's device token is part of the state there.                *)
(***************************************************************************)
EXTENDS Integers, Sequences, FiniteSets, TLC

\* ---------------------------------------------------------------- bounds
NumProcs  == 2      \* concurrent request processes
MaxAlerts == 2      \* documents in users/{uid}/security_alerts
MaxCalls  == 3      \* callable invocations in one behaviour

Procs    == 1..NumProcs
Null     == 0       \* null / absent field
NoAlert  == 0       \* alertId missing from the request data
NoDetails == 0      \* details without a pinUsed entry
AlertIds == 1..MaxAlerts

Tokens       == {"t1", "t2"}
NoToken      == "null"
TriggerTypes == {"abrupt_movement", "suspicious_speed", "panic_button"}
EventTypes   == {"unauthorized_app_access"}
NoEvent      == "none"
CommandKeys  == {"lockDevice", "wipeData"}

MinPinLen  == 4     \* savePins: normalPin.length < 4
MaxPinLen  == 6     \* savePins: normalPin.length > 6
Digits     == {"0", "1", "2", "3", "4", "5", "6", "7", "8", "9"}
NoPin      == <<>>  \* a PIN missing from the request data
NoChange   == <<>>  \* the request is not a changePins call waiting to save
PinInputs  == {NoPin,
               <<"1", "2", "3">>,
               <<"1", "2", "3", "4">>,
               <<"1", "2", "a", "4">>,
               <<"6", "5", "4", "3", "2", "1">>,
               <<"1", "2", "3", "4", "5", "6", "7">>}
Salts      == 1..(2 * MaxCalls)   \* one fresh salt for every bcrypt.hash call
PinTrigger == "security_pin_used"

MaxTime        == 2   \* the wall clock stops here
TenMinutes     == 1   \* Date.now() + 10 * 60 * 1000, in units of the clock
MaxOtpAttempts == 5   \* verificationData.attempts >= 5
Codes          == {"111111", "222222"}
NoCode         == ""  \* code missing from the request data
PhoneNumbers   == {"+34600000001"}
NoPhone        == ""  \* phoneNumber missing from the request data

QueryLimit == 10       \* getSecurityAlerts: .limit(10)

Caller     == "A"      \* context.auth.uid: the modelled user
OtherUser  == "B"      \* another user of the service
Uids       == {Caller, OtherUser}
OtherToken == "tB"     \* users/B: fcmToken, the other user's device

VARIABLES
  user,     \* users/{uid}: currentMode, security.*, fcmToken
  alerts,   \* users/{uid}/security_alerts, alert id = index
  sent,     \* messages accepted by the push provider, in order
  calls,    \* number of callable invocations so far (the request clock)
  pc,       \* per request: position in its handler
  op,       \* per request: the callable (a trigger is named by its alert type)
  aid,      \* per request: alertId argument / id of the alert it created
  tok,      \* per request: fcmToken read by the send helper
  res,      \* per request: result returned to the caller
  pins,     \* users/{uid}/config/pins
  setup,    \* users/{uid}: setup.pinsConfigured
  stats,    \* users/{uid}: stats.*
  failed,   \* users/{uid}/failed_attempts: pinLength of each document
  unlocks,  \* users/{uid}/unlock_history: mode of each document
  logErrors,\* number of console.error lines of logFailedAttempt
  chosen,   \* the normal and security PIN the owner sets with savePins
  arg,      \* per request: the PIN submitted to verifyPin, while it runs
  change,   \* per request: the new PINs of a changePins call, until it saves them
  otp,      \* verification_codes/{uid}
  phone,    \* users/{uid}: phoneVerified, phoneNumber
  clock,    \* the wall clock (new Date(), Date.now())
  loc,      \* per request: code, phone number and attempts held by the handler
  wrong,    \* verifySmscode calls answered 'Código incorrecto' since the last issue
  older,    \* unresolved security_alerts documents left by earlier triggers
  listed,   \* per request: ids of the alerts returned by getSecurityAlerts
  auth,     \* per request: context.auth is present
  secEvents,\* security_events: the userId field of each document
  target    \* per request: data.userId of blockDeviceRemotely

vars    == <<user, alerts, sent, calls, pc, op, aid, tok, res,
             pins, setup, stats, failed, unlocks, logErrors, chosen, arg, change,
             otp, phone, clock, loc, wrong, older, listed, auth, secEvents, target>>
store   == <<user, alerts, sent>>
pinvars == <<pins, setup, stats, failed, unlocks, logErrors, chosen, arg, change>>
otpvars == <<otp, phone, clock, loc, wrong>>
listvars == <<older, listed>>
authvars == <<auth, secEvents, target>>

\* ------------------------------------------------------------ documents

\* index.ts onUserCreate: the fields of the user document the services use
NewUser ==
  [currentMode     |-> "normal",
   alertActive     |-> FALSE,
   modeActivatedAt |-> Null,
   fcmToken        |-> NoToken]

\* config/pins before the first savePins: the document does not exist
NoHash == [salt |-> 0, digest |-> 0]
NoPins == [exists |-> FALSE, normalPinHash |-> NoHash, securityPinHash |-> NoHash]

\* index.ts onUserCreate: stats
NewStats == [failedAttempts |-> 0, totalUnlocks |-> 0, normalUnlocks |-> 0, securityUnlocks |-> 0]

\* verification_codes/{uid} before the first issue and after a delete
NoChallenge ==
  [exists |-> FALSE, code |-> NoCode, phoneNumber |-> NoPhone,
   createdAt |-> 0, expiresAt |-> 0, attempts |-> 0]

\* index.ts onUserCreate: phoneNumber null, no phoneVerified field
NewPhone == [verified |-> FALSE, number |-> NoPhone]

\* what a phone verification handler holds between its awaits
NoLocals == [code |-> NoCode, phoneNumber |-> NoPhone, attempts |-> 0]

\* a key that the commands map of an alert does not hold
NoEntry == [requestedAt |-> Null, status |-> "none"]

\* alerts.ts activateSecurityMode: alertData
AlertData(alertType, t) ==
  [type           |-> alertType,
   timestamp      |-> t,
   status         |-> "active",
   resolved       |-> FALSE,
   resolutionType |-> "none",
   resolvedAt     |-> Null,
   details        |-> NoDetails,
   commands       |-> [k \in CommandKeys |-> NoEntry]]

\* alerts.ts activateSecurityMode: userUpdate
UserUpdate(u, t) ==
  [u EXCEPT !.currentMode = "security",
            !.alertActive = TRUE,
            !.modeActivatedAt = t]

AlertExists(a) == a \in 1..Len(alerts)

\* Timestamp.now(), read once by every handler before its first await:
\* requests are stamped in the order they start
Now == calls + 1

InitUser ==
  /\ user   = NewUser
  /\ alerts = <<>>
  /\ sent   = <<>>
  /\ calls  = 0
  /\ pc  = [p \in Procs |-> "idle"]
  /\ op  = [p \in Procs |-> "none"]
  /\ aid = [p \in Procs |-> NoAlert]
  /\ tok = [p \in Procs |-> NoToken]
  /\ res = [p \in Procs |-> "none"]
  /\ stats     = NewStats
  /\ failed    = <<>>
  /\ unlocks   = <<>>
  /\ logErrors = 0
  /\ arg = [p \in Procs |-> NoPin]
  /\ otp   = NoChallenge
  /\ phone = NewPhone
  /\ clock = 0
  /\ loc   = [p \in Procs |-> NoLocals]
  /\ wrong = 0
  /\ listed = [p \in Procs |-> {}]
  /\ auth = [p \in Procs |-> TRUE]
  /\ secEvents = <<>>
  /\ change = [p \in Procs |-> NoChange]
  /\ target = [p \in Procs |-> Caller]

\* the store of a new user: no config/pins document yet
InitStore == InitUser /\ pins = NoPins /\ setup = FALSE /\ older = 0

\* no PINs are set in this behaviour
Init == InitStore /\ chosen = <<NoPin, NoPin>>

\* the owner's setup sends some pair of PINs, of any shape
InitPin == InitStore /\ chosen \in PinInputs \X PinInputs

\* a request starts: the callable is entered.  A changePins call whose
\* verifyPin has returned is still running.
Free(p) == pc[p] \in {"idle", "done"} /\ change[p] = NoChange

Enter(p, name, a) ==
  /\ Free(p)
  /\ \A q \in Procs : q < p => ~Free(q)
  /\ calls < MaxCalls
  /\ calls' = calls + 1
  /\ op'  = [op EXCEPT ![p] = name]
  /\ aid' = [aid EXCEPT ![p] = a]

\* a request ends with result r
Finish(p, r) ==
  /\ pc'  = [pc EXCEPT ![p] = "done"]
  /\ res' = [res EXCEPT ![p] = r]

\* a send helper returns and its caller ends with result r
FinishSend(p, r) ==
  /\ Finish(p, r)
  /\ tok' = [tok EXCEPT ![p] = NoToken]

\* mutant: the endpoint does not check that alertId is present
RequireAlertIdSkipped(a) == TRUE

\* index.ts: if (!alertId) throw new HttpsError('invalid-argument', ...)
RequireAlertId(a) == a # NoAlert

\* ------------------------------------------------- activateSecurityMode

\* mutant: two separate writes instead of a batch; the alert is stored and
\* the user update then fails
ActivateBatchSplit(p, alertType) ==
  \/ /\ Len(alerts) < MaxAlerts
     /\ alerts' = Append(alerts, AlertData(alertType, Now))
     /\ user'   = UserUpdate(user, Now)
     /\ aid'    = [aid EXCEPT ![p] = Len(alerts) + 1]
     /\ pc'     = [pc EXCEPT ![p] = "push_read"]
     /\ res'    = [res EXCEPT ![p] = "none"]
  \/ /\ Len(alerts) < MaxAlerts
     /\ alerts' = Append(alerts, AlertData(alertType, Now))
     /\ UNCHANGED user
     /\ aid' = [aid EXCEPT ![p] = NoAlert]
     /\ Finish(p, "internal")
  \/ /\ UNCHANGED <<alerts, user>>
     /\ aid' = [aid EXCEPT ![p] = NoAlert]
     /\ Finish(p, "internal")

\* mutant: a trigger that finds an active alert joins it instead of
\* creating its own
ActivateBatchDedup(p, alertType) ==
  \/ /\ \A i \in 1..Len(alerts) : alerts[i].status # "active"
     /\ Len(alerts) < MaxAlerts
     /\ alerts' = Append(alerts, AlertData(alertType, Now))
     /\ user'   = UserUpdate(user, Now)
     /\ aid'    = [aid EXCEPT ![p] = Len(alerts) + 1]
     /\ pc'     = [pc EXCEPT ![p] = "push_read"]
     /\ res'    = [res EXCEPT ![p] = "none"]
  \/ /\ \E i \in 1..Len(alerts) :
          /\ alerts[i].status = "active"
          /\ aid' = [aid EXCEPT ![p] = i]
     /\ user'   = UserUpdate(user, Now)
     /\ UNCHANGED alerts
     /\ pc'     = [pc EXCEPT ![p] = "push_read"]
     /\ res'    = [res EXCEPT ![p] = "none"]
  \/ /\ UNCHANGED <<alerts, user>>
     /\ aid' = [aid EXCEPT ![p] = NoAlert]
     /\ Finish(p, "internal")

\* batch.set(alertRef, alertData); batch.update(userRef, userUpdate);
\* await batch.commit(): both writes or neither
ActivateBatchOf(p, alertData) ==
  \/ /\ Len(alerts) < MaxAlerts
     /\ alerts' = Append(alerts, alertData)
     /\ user'   = UserUpdate(user, Now)
     /\ aid'    = [aid EXCEPT ![p] = Len(alerts) + 1]
     /\ pc'     = [pc EXCEPT ![p] = "push_read"]
     /\ res'    = [res EXCEPT ![p] = "none"]
  \/ /\ UNCHANGED <<alerts, user>>
     /\ aid' = [aid EXCEPT ![p] = NoAlert]
     /\ Finish(p, "internal")

\* activateSecurityMode called by a trigger endpoint: the details are the
\* request's payload
ActivateBatch(p, alertType) == ActivateBatchOf(p, AlertData(alertType, Now))

\* reportAbnormalMovement / reportSuspiciousSpeed / triggerPanicButton
\* -> AlertsService.activateSecurityMode(uid, alertType, details)
activateSecurityMode(p, alertType) ==
  /\ Free(p)
  /\ \A q \in Procs : q < p => ~Free(q)
  /\ calls < MaxCalls
  /\ calls' = calls + 1
  /\ op' = [op EXCEPT ![p] = alertType]
  /\ ActivateBatch(p, alertType)
  /\ UNCHANGED <<sent, tok>>

\* ------------------------------------------------- sendPushNotification

Notification(a, token) ==
  [kind |-> "notification", command |-> "none", alertId |-> a, token |-> token]

\* userDoc.get(); if (!userData?.fcmToken) return {success: false}
\* (a failed get is caught and also returns {success: false})
PushRead(p) ==
  /\ pc[p] = "push_read"
  /\ \/ /\ user.fcmToken # NoToken
        /\ tok' = [tok EXCEPT ![p] = user.fcmToken]
        /\ pc'  = [pc EXCEPT ![p] = "push_send"]
        /\ UNCHANGED res
     \/ /\ user.fcmToken = NoToken
        /\ FinishSend(p, "ok")
     \/ /\ FinishSend(p, "ok")
  /\ UNCHANGED <<user, alerts, sent, calls, op, aid>>

\* admin.messaging().send(message): accepted, rejected with an
\* invalid/unregistered token code, or rejected with another error
PushSend(p) ==
  /\ pc[p] = "push_send"
  /\ \/ /\ sent' = Append(sent, Notification(aid[p], tok[p]))
        /\ FinishSend(p, "ok")
     \/ /\ UNCHANGED sent
        /\ FinishSend(p, "ok")
     \/ /\ UNCHANGED <<sent, res, tok>>
        /\ pc' = [pc EXCEPT ![p] = "push_cleanup"]
  /\ UNCHANGED <<user, alerts, calls, op, aid>>

\* catch: update({fcmToken: null}); a failure of this update is not caught
PushCleanup(p) ==
  /\ pc[p] = "push_cleanup"
  /\ \/ /\ user' = [user EXCEPT !.fcmToken = NoToken]
        /\ FinishSend(p, "ok")
     \/ /\ UNCHANGED user
        /\ FinishSend(p, "internal")
  /\ UNCHANGED <<alerts, sent, calls, op, aid>>

\* ------------------------------------------------- sendCommandToDevice

CommandOf(name) ==
  CASE name = "deactivate" -> "deactivate_security_mode"
    [] name = "lock"       -> "lock_device"
    [] name = "wipe"       -> "wipe_data"
    [] OTHER               -> "none"

Command(name, a, token) ==
  [kind |-> "data", command |-> CommandOf(name), alertId |-> a, token |-> token]

\* mutant: the caller ignores the result of the send for every command
AfterCommandIgnored(name, success) == "ok"

\* what the caller of sendCommandToDevice does with {success}:
\* deactivateSecurityMode ignores it, remoteLockDevice / remoteWipeData
\* throw 'unavailable' unless it is true
AfterCommand(name, success) ==
  IF name = "deactivate" \/ success THEN "ok" ELSE "unavailable"

CommandRead(p) ==
  /\ pc[p] = "cmd_read"
  /\ \/ /\ user.fcmToken # NoToken
        /\ tok' = [tok EXCEPT ![p] = user.fcmToken]
        /\ pc'  = [pc EXCEPT ![p] = "cmd_send"]
        /\ UNCHANGED res
     \/ /\ user.fcmToken = NoToken
        /\ FinishSend(p, AfterCommand(op[p], FALSE))
     \/ /\ FinishSend(p, AfterCommand(op[p], FALSE))
  /\ UNCHANGED <<user, alerts, sent, calls, op, aid>>

\* mutant: the send records its outcome on the command's audit entry
CommandSendMarksOutcome(p) ==
  /\ pc[p] = "cmd_send"
  /\ \/ /\ sent' = Append(sent, Command(op[p], aid[p], tok[p]))
        /\ alerts' = IF op[p] \in {"lock", "wipe"}
                       THEN [alerts EXCEPT ![aid[p]].commands[IF op[p] = "lock" THEN "lockDevice" ELSE "wipeData"].status = "delivered"]
                       ELSE alerts
        /\ FinishSend(p, AfterCommand(op[p], TRUE))
     \/ /\ UNCHANGED sent
        /\ alerts' = IF op[p] \in {"lock", "wipe"}
                       THEN [alerts EXCEPT ![aid[p]].commands[IF op[p] = "lock" THEN "lockDevice" ELSE "wipeData"].status = "failed"]
                       ELSE alerts
        /\ FinishSend(p, AfterCommand(op[p], FALSE))
     \/ /\ UNCHANGED <<sent, alerts, res, tok>>
        /\ pc' = [pc EXCEPT ![p] = "cmd_cleanup"]
  /\ UNCHANGED <<user, calls, op, aid>>

CommandSend(p) ==
  /\ pc[p] = "cmd_send"
  /\ \/ /\ sent' = Append(sent, Command(op[p], aid[p], tok[p]))
        /\ FinishSend(p, AfterCommand(op[p], TRUE))
     \/ /\ UNCHANGED sent
        /\ FinishSend(p, AfterCommand(op[p], FALSE))
     \/ /\ UNCHANGED <<sent, res, tok>>
        /\ pc' = [pc EXCEPT ![p] = "cmd_cleanup"]
  /\ UNCHANGED <<user, alerts, calls, op, aid>>

CommandCleanup(p) ==
  /\ pc[p] = "cmd_cleanup"
  /\ \/ /\ user' = [user EXCEPT !.fcmToken = NoToken]
        /\ FinishSend(p, AfterCommand(op[p], FALSE))
     \/ /\ UNCHANGED user
        /\ FinishSend(p, "internal")
  /\ UNCHANGED <<alerts, sent, calls, op, aid>>

\* ----------------------------------------------- deactivateSecurityMode

\* mutant: deactivate leaves security.modeActivatedAt as it was
DeactivateUserUpdateKeepsTime(u) ==
  [u EXCEPT !.currentMode = "normal",
            !.alertActive = FALSE]

\* batch.update(userRef, {currentMode: 'normal', ...})
DeactivateUserUpdate(u) ==
  [u EXCEPT !.currentMode = "normal",
            !.alertActive = FALSE,
            !.modeActivatedAt = Null]

\* mutant: deactivate resolves every active alert of the user
DeactivateAllActive(al, a, t) ==
  [i \in DOMAIN al |->
     IF i = a \/ al[i].status = "active"
       THEN [al[i] EXCEPT !.resolved = TRUE,
                          !.status = "resolved",
                          !.resolutionType = "false_alarm",
                          !.resolvedAt = t]
       ELSE al[i]]

\* batch.update(alertRef, {resolved: true, status: 'resolved', ...})
DeactivateAlertUpdate(al, a, t) ==
  [al EXCEPT ![a].resolved = TRUE,
             ![a].status = "resolved",
             ![a].resolutionType = "false_alarm",
             ![a].resolvedAt = t]

\* mutant: the user update is written on its own before the alert update,
\* so it is applied even when the alert document is missing
DeactivateBatchUserFirst(p, a) ==
  \/ /\ AlertExists(a)
     /\ user'   = DeactivateUserUpdate(user)
     /\ alerts' = DeactivateAlertUpdate(alerts, a, Now)
     /\ pc'     = [pc EXCEPT ![p] = "cmd_read"]
     /\ res'    = [res EXCEPT ![p] = "none"]
  \/ /\ ~AlertExists(a)
     /\ user' = DeactivateUserUpdate(user)
     /\ UNCHANGED alerts
     /\ Finish(p, "internal")
  \/ /\ UNCHANGED <<user, alerts>>
     /\ Finish(p, "internal")

\* await batch.commit(): an update of a missing document fails the batch
DeactivateBatch(p, a) ==
  \/ /\ AlertExists(a)
     /\ user'   = DeactivateUserUpdate(user)
     /\ alerts' = DeactivateAlertUpdate(alerts, a, Now)
     /\ pc'     = [pc EXCEPT ![p] = "cmd_read"]
     /\ res'    = [res EXCEPT ![p] = "none"]
  \/ /\ UNCHANGED <<user, alerts>>
     /\ Finish(p, "internal")

deactivateSecurityMode(p, a) ==
  /\ Enter(p, "deactivate", a)
  /\ IF RequireAlertId(a)
       THEN DeactivateBatch(p, a)
       ELSE /\ Finish(p, "invalid-argument")
            /\ UNCHANGED <<user, alerts>>
  /\ UNCHANGED <<sent, tok>>

\* ------------------------------------ remoteLockDevice / remoteWipeData

\* alertRef.update({'commands.<key>': {requestedAt: now, status: 'pending'}})
AuditEntry(t) == [requestedAt |-> t, status |-> "pending"]

\* mutant: a failed audit write is swallowed and the command is sent anyway
AuditWriteSwallowed(p, key, a) ==
  \/ /\ AlertExists(a)
     /\ alerts' = [alerts EXCEPT ![a].commands[key] = AuditEntry(Now)]
     /\ pc'     = [pc EXCEPT ![p] = "cmd_read"]
     /\ res'    = [res EXCEPT ![p] = "none"]
  \/ /\ UNCHANGED alerts
     /\ pc'     = [pc EXCEPT ![p] = "cmd_read"]
     /\ res'    = [res EXCEPT ![p] = "none"]

\* mutant: the token is looked up first and a request for a user without
\* one returns before the audit entry is written
AuditWriteAfterLookup(p, key, a) ==
  IF user.fcmToken = NoToken
    THEN /\ UNCHANGED alerts
         /\ Finish(p, "unavailable")
    ELSE \/ /\ AlertExists(a)
            /\ alerts' = [alerts EXCEPT ![a].commands[key] = AuditEntry(Now)]
            /\ pc'     = [pc EXCEPT ![p] = "cmd_read"]
            /\ res'    = [res EXCEPT ![p] = "none"]
         \/ /\ UNCHANGED alerts
            /\ Finish(p, "internal")

\* mutant: the audit write also sets the alert's status back to active
AuditWriteReopens(p, key, a) ==
  \/ /\ AlertExists(a)
     /\ alerts' = [alerts EXCEPT ![a].commands[key] = AuditEntry(Now),
                                ![a].status = "active"]
     /\ pc'     = [pc EXCEPT ![p] = "cmd_read"]
     /\ res'    = [res EXCEPT ![p] = "none"]
  \/ /\ UNCHANGED alerts
     /\ Finish(p, "internal")

AuditWrite(p, key, a) ==
  \/ /\ AlertExists(a)
     /\ alerts' = [alerts EXCEPT ![a].commands[key] = AuditEntry(Now)]
     /\ pc'     = [pc EXCEPT ![p] = "cmd_read"]
     /\ res'    = [res EXCEPT ![p] = "none"]
  \/ /\ UNCHANGED alerts
     /\ Finish(p, "internal")

lockDeviceRemotely(p, a) ==
  /\ Enter(p, "lock", a)
  /\ IF RequireAlertId(a)
       THEN AuditWrite(p, "lockDevice", a)
       ELSE /\ Finish(p, "invalid-argument")
            /\ UNCHANGED alerts
  /\ UNCHANGED <<user, sent, tok>>

wipeDeviceRemotely(p, a) ==
  /\ Enter(p, "wipe", a)
  /\ IF RequireAlertId(a)
       THEN AuditWrite(p, "wipeData", a)
       ELSE /\ Finish(p, "invalid-argument")
            /\ UNCHANGED alerts
  /\ UNCHANGED <<user, sent, tok>>

\* ---------------------------------------------- deactivateAlertOnUnlock

\* alertRef.update({resolved: true, status: 'resolved', ...})
\* mutant: the unlock update marks the status and forgets the resolved flag
UnlockAlertUpdateStatusOnly(al, a, t) ==
  [al EXCEPT ![a].status = "resolved",
             ![a].resolutionType = "unlocked_successfully",
             ![a].resolvedAt = t]

UnlockAlertUpdate(al, a, t) ==
  [al EXCEPT ![a].resolved = TRUE,
             ![a].status = "resolved",
             ![a].resolutionType = "unlocked_successfully",
             ![a].resolvedAt = t]

UnlockWrite(p, a) ==
  \/ /\ AlertExists(a)
     /\ alerts' = UnlockAlertUpdate(alerts, a, Now)
     /\ Finish(p, "ok")
  \/ /\ UNCHANGED alerts
     /\ Finish(p, "internal")

deactivateAlertOnUnlock(p, a) ==
  /\ Enter(p, "unlock", a)
  /\ IF RequireAlertId(a)
       THEN UnlockWrite(p, a)
       ELSE /\ Finish(p, "invalid-argument")
            /\ UNCHANGED alerts
  /\ UNCHANGED <<user, sent, tok>>

\* ----------------------------------------------------- logSecurityEvent

\* security_alerts.add({type, details, timestamp, status: 'active', resolved: false})
EventData(eventType, t) ==
  [type           |-> eventType,
   timestamp      |-> t,
   status         |-> "active",
   resolved       |-> FALSE,
   resolutionType |-> "none",
   resolvedAt     |-> Null,
   details        |-> NoDetails,
   commands       |-> [k \in CommandKeys |-> NoEntry]]

logSecurityEvent(p, eventType) ==
  /\ Enter(p, "log", NoAlert)
  /\ IF eventType # NoEvent
       THEN \/ /\ Len(alerts) < MaxAlerts
               /\ alerts' = Append(alerts, EventData(eventType, Now))
               /\ Finish(p, "ok")
            \/ /\ UNCHANGED alerts
               /\ Finish(p, "internal")
       ELSE /\ Finish(p, "invalid-argument")
            /\ UNCHANGED alerts
  /\ UNCHANGED <<user, sent, tok>>

\* ------------------------------------------------------- updateFCMToken

updateFCMToken(p, token) ==
  /\ Enter(p, "token", NoAlert)
  /\ IF token # NoToken
       THEN \/ /\ user' = [user EXCEPT !.fcmToken = token]
               /\ Finish(p, "ok")
            \/ /\ UNCHANGED user
               /\ Finish(p, "internal")
       ELSE /\ Finish(p, "invalid-argument")
            /\ UNCHANGED user
  /\ UNCHANGED <<alerts, sent, tok>>

\* ------------------------------------------------- ConfigService: PINs

\* bcrypt.hash(pin, 10): a one-way digest of the PIN under a fresh salt,
\* stored together with the salt.  The digest numbers the character string
\* (length included) and mixes the salt in; inputs are far below bcrypt's
\* 72-byte input limit.
CharCode(c) ==
  CASE c = "0" -> 1 [] c = "1" -> 2 [] c = "2" -> 3 [] c = "3" -> 4
    [] c = "4" -> 5 [] c = "5" -> 6 [] c = "6" -> 7 [] c = "7" -> 8
    [] c = "8" -> 9 [] c = "9" -> 10 [] OTHER -> 11

RECURSIVE Encode(_)
Encode(s) == IF s = <<>> THEN 0 ELSE CharCode(Head(s)) + 12 * Encode(Tail(s))

\* bcrypt.genSalt: the salt of the i-th hash of this request, a value no
\* other hash call of the behaviour gets
FreshSalt(i) == 2 * (Now - 1) + i

Hash(pin, salt) == [salt |-> salt, digest |-> Encode(pin) * (Cardinality(Salts) + 1) + salt]

\* bcrypt.compare(pin, hash): hash the candidate under the stored salt
Compare(pin, h) == Hash(pin, h.salt) = h

\* /^\d+$/.test(s)
IsDigits(s) == Len(s) > 0 /\ \A i \in 1..Len(s) : s[i] \in Digits

\* ConfigService.savePins: the validations, in source order.  Only the
\* length of normalPin is compared with the limits.
PinsAccepted(normalPin, securityPin) ==
  /\ ~(normalPin = NoPin \/ securityPin = NoPin)
  /\ ~(Len(normalPin) < MinPinLen \/ Len(normalPin) > MaxPinLen)
  /\ ~(normalPin = securityPin)
  /\ ~(~IsDigits(normalPin) \/ ~IsDigits(securityPin))

\* users/{uid}/config/pins as written by savePins
PinsDoc(normalPin, securityPin, k1, k2) ==
  [exists          |-> TRUE,
   normalPinHash   |-> Hash(normalPin, k1),
   securityPinHash |-> Hash(securityPin, k2)]

\* savePins: endpoint check, validations, the two hashes and the
\* config/pins write (a rejected write is caught: {success: false})
savePins(p, normalPin, securityPin) ==
  /\ Enter(p, "save", NoAlert)
  /\ IF normalPin = NoPin \/ securityPin = NoPin
       THEN /\ Finish(p, "invalid-argument")
            /\ UNCHANGED pins
       ELSE IF ~PinsAccepted(normalPin, securityPin)
         THEN /\ Finish(p, "rejected")
              /\ UNCHANGED pins
         ELSE \/ /\ pins' = PinsDoc(normalPin, securityPin, FreshSalt(1), FreshSalt(2))
                 /\ pc'  = [pc EXCEPT ![p] = "save_user"]
                 /\ res' = [res EXCEPT ![p] = "none"]
              \/ /\ UNCHANGED pins
                 /\ Finish(p, "failed")
  /\ UNCHANGED <<user, alerts, sent, tok, setup, stats, failed, unlocks, logErrors, chosen, arg, change>>

\* savePins: update({'setup.pinsConfigured': true, ...}); return success
SaveSetup(p) ==
  /\ pc[p] = "save_user"
  /\ \/ /\ setup' = TRUE
        /\ Finish(p, "ok")
     \/ /\ UNCHANGED setup
        /\ Finish(p, "failed")
  /\ UNCHANGED <<user, alerts, sent, calls, op, aid, tok, pins, stats, failed, unlocks, logErrors, chosen, arg, change>>

\* mutant: the candidate is compared with the normal hash in both tests
ClassifyNormalTwice(pin, doc) ==
  IF Compare(pin, doc.normalPinHash) THEN "unlock_add"
  ELSE IF Compare(pin, doc.normalPinHash) THEN "vp_activate"
  ELSE "fail_add"

\* mutant: the security hash is compared first
ClassifySecurityFirst(pin, doc) ==
  IF Compare(pin, doc.securityPinHash) THEN "vp_activate"
  ELSE IF Compare(pin, doc.normalPinHash) THEN "unlock_add"
  ELSE "fail_add"

\* verifyPin: the two bcrypt.compare calls, normal hash first; the result
\* is the branch the handler continues in
Classify(pin, doc) ==
  IF Compare(pin, doc.normalPinHash) THEN "unlock_add"
  ELSE IF Compare(pin, doc.securityPinHash) THEN "vp_activate"
  ELSE "fail_add"

\* verifyPin returns r; its local pin is gone
FinishVerify(p, r) ==
  /\ Finish(p, r)
  /\ arg' = [arg EXCEPT ![p] = NoPin]

\* verifyPin: endpoint check, read of config/pins, classification
verifyPin(p, pin) ==
  /\ Enter(p, "verify", NoAlert)
  /\ IF pin = NoPin
       THEN FinishVerify(p, "invalid-argument")
       ELSE IF ~pins.exists
         THEN FinishVerify(p, "null")
         ELSE /\ pc'  = [pc EXCEPT ![p] = Classify(pin, pins)]
              /\ res' = [res EXCEPT ![p] = "none"]
              /\ arg' = [arg EXCEPT ![p] = pin]
  /\ UNCHANGED <<user, alerts, sent, tok, pins, setup, stats, failed, unlocks, logErrors, chosen, change>>

\* logUnlock: unlock_history.add({mode, ...}); a rejected add is logged
\* and swallowed, and the counters are then not updated
UnlockAdd(p) ==
  /\ pc[p] = "unlock_add"
  /\ \/ /\ unlocks' = Append(unlocks, "normal")
        /\ pc' = [pc EXCEPT ![p] = "unlock_stats"]
        /\ UNCHANGED <<res, arg>>
     \/ /\ FinishVerify(p, "normal")
        /\ UNCHANGED unlocks
  /\ UNCHANGED <<user, alerts, sent, calls, op, aid, tok, pins, setup, stats, failed, logErrors, chosen, change>>

\* update({'stats.totalUnlocks': increment(1), 'stats.normalUnlocks': increment(1)})
IncUnlocks(s) == [s EXCEPT !.totalUnlocks = @ + 1, !.normalUnlocks = @ + 1]

\* mutant: a rejected counter update leaves logUnlock and reaches
\* verifyPin's catch, which returns mode null
UnlockStatsPropagates(p) ==
  /\ pc[p] = "unlock_stats"
  /\ \/ /\ stats' = IncUnlocks(stats)
        /\ FinishVerify(p, "normal")
     \/ /\ UNCHANGED stats
        /\ FinishVerify(p, "null")
  /\ UNCHANGED <<user, alerts, sent, calls, op, aid, tok, pins, setup, failed, unlocks, logErrors, chosen, change>>

\* logUnlock: the counter update, then verifyPin returns mode normal
UnlockStats(p) ==
  /\ pc[p] = "unlock_stats"
  /\ \/ stats' = IncUnlocks(stats)
     \/ UNCHANGED stats
  /\ FinishVerify(p, "normal")
  /\ UNCHANGED <<user, alerts, sent, calls, op, aid, tok, pins, setup, failed, unlocks, logErrors, chosen, change>>

\* verifyPin: details {pinUsed: `${pin.length} digits`}
PinUsed(pin) == Len(pin)

\* the alert of a security PIN: activateSecurityMode's alertData with the
\* details verifyPin passes
PinAlertData(pin, t) == [AlertData(PinTrigger, t) EXCEPT !.details = PinUsed(pin)]

\* mutant: the activation swallows a rejected write and verifyPin returns
\* mode security all the same
VerifyActivateSwallowed(p) ==
  /\ pc[p] = "vp_activate"
  /\ op' = [op EXCEPT ![p] = PinTrigger]
  /\ \/ /\ Len(alerts) < MaxAlerts
        /\ alerts' = Append(alerts, PinAlertData(arg[p], Now))
        /\ user'   = UserUpdate(user, Now)
        /\ aid'    = [aid EXCEPT ![p] = Len(alerts) + 1]
        /\ pc'     = [pc EXCEPT ![p] = "push_read"]
        /\ res'    = [res EXCEPT ![p] = "none"]
     \/ /\ UNCHANGED <<alerts, user>>
        /\ aid' = [aid EXCEPT ![p] = NoAlert]
        /\ Finish(p, "ok")
  /\ arg' = [arg EXCEPT ![p] = NoPin]
  /\ UNCHANGED <<sent, calls, tok, pins, setup, stats, failed, unlocks, logErrors, chosen, change>>

\* verifyPin: await AlertsService.activateSecurityMode(userId,
\* 'security_pin_used', ...).  The request continues as that activate; when
\* it returns verifyPin returns mode security, when it throws verifyPin's
\* catch returns mode null.
VerifyActivate(p) ==
  /\ pc[p] = "vp_activate"
  /\ op' = [op EXCEPT ![p] = PinTrigger]
  /\ ActivateBatchOf(p, PinAlertData(arg[p], Now))
  /\ arg' = [arg EXCEPT ![p] = NoPin]
  /\ UNCHANGED <<sent, calls, tok, pins, setup, stats, failed, unlocks, logErrors, chosen, change>>

\* the mode verifyPin returned to the caller of request p
ModeReturned(p) ==
  CASE op[p] = "verify" /\ pc[p] = "done"   -> res[p]
    [] op[p] = PinTrigger /\ pc[p] = "done" -> IF res[p] = "ok" THEN "security" ELSE "null"
    [] OTHER -> "none"

\* index.ts changePins: the new PINs (and the number of the request) the
\* handler holds while its verifyPin runs
Pending(newNormalPin, newSecurityPin, n) ==
  [normalPin |-> newNormalPin, securityPin |-> newSecurityPin, call |-> n]

\* index.ts changePins: endpoint check, then await
\* ConfigService.verifyPin(userId, currentPin), which runs as every
\* verifyPin does: unlock log, activation or failed-attempt log
changePins(p, currentPin, newNormalPin, newSecurityPin) ==
  /\ Enter(p, "change", NoAlert)
  /\ IF currentPin = NoPin \/ newNormalPin = NoPin \/ newSecurityPin = NoPin
       THEN /\ Finish(p, "invalid-argument")
            /\ UNCHANGED <<arg, change>>
       ELSE IF ~pins.exists
         THEN /\ Finish(p, "permission-denied")
              /\ UNCHANGED <<arg, change>>
         ELSE /\ pc'  = [pc EXCEPT ![p] = Classify(currentPin, pins)]
              /\ res' = [res EXCEPT ![p] = "none"]
              /\ arg' = [arg EXCEPT ![p] = currentPin]
              /\ change' = [change EXCEPT ![p] = Pending(newNormalPin, newSecurityPin, Now)]
  /\ UNCHANGED <<user, alerts, sent, tok, pins, setup, stats, failed, unlocks, logErrors, chosen>>

\* verifyResult.success of the verifyPin that request p awaited: true for
\* mode normal and for mode security
VerifySucceeded(p) ==
  \/ op[p] = "change" /\ res[p] = "normal"
  \/ op[p] = PinTrigger /\ res[p] = "ok"

\* index.ts changePins, after verifyPin has returned: permission-denied
\* unless it succeeded, else ConfigService.savePins(userId, newNormalPin,
\* newSecurityPin): validations, hashes and the config/pins write
ChangeSave(p) ==
  /\ pc[p] = "done"
  /\ change[p] # NoChange
  /\ change' = [change EXCEPT ![p] = NoChange]
  /\ op' = [op EXCEPT ![p] = "change"]
  /\ IF ~VerifySucceeded(p)
       THEN /\ Finish(p, "permission-denied")
            /\ UNCHANGED pins
       ELSE IF ~PinsAccepted(change[p].normalPin, change[p].securityPin)
         THEN /\ Finish(p, "rejected")
              /\ UNCHANGED pins
         ELSE \/ /\ pins' = PinsDoc(change[p].normalPin, change[p].securityPin,
                                    2 * (change[p].call - 1) + 1, 2 * (change[p].call - 1) + 2)
                 /\ pc'  = [pc EXCEPT ![p] = "save_user"]
                 /\ res' = [res EXCEPT ![p] = "none"]
              \/ /\ UNCHANGED pins
                 /\ Finish(p, "failed")
  /\ UNCHANGED <<user, alerts, sent, calls, aid, tok, setup, stats, failed, unlocks, logErrors, chosen, arg>>

\* mutant: the failed-attempt document keeps the submitted PIN
FailedRecordKeepsPin(pin) == Encode(pin)

\* logFailedAttempt(userId, pin.length): the document holds pinLength
FailedRecord(pin) == Len(pin)

\* logFailedAttempt: failed_attempts.add({timestamp, pinLength}); a
\* rejected add is logged and swallowed, and the counter is then not updated
FailAdd(p) ==
  /\ pc[p] = "fail_add"
  /\ \/ /\ failed' = Append(failed, FailedRecord(arg[p]))
        /\ pc' = [pc EXCEPT ![p] = "fail_stats"]
        /\ UNCHANGED <<res, logErrors, arg>>
     \/ /\ logErrors' = logErrors + 1
        /\ FinishVerify(p, "null")
        /\ UNCHANGED failed
  /\ UNCHANGED <<user, alerts, sent, calls, op, aid, tok, pins, setup, stats, unlocks, chosen, change>>

\* mutant: the counter is written as 1 instead of being incremented
SetFailedAttempts(s) == [s EXCEPT !.failedAttempts = 1]

\* update({'stats.failedAttempts': FieldValue.increment(1)}): the store
\* adds 1 to the stored value atomically
IncFailedAttempts(s) == [s EXCEPT !.failedAttempts = @ + 1]

\* logFailedAttempt: the counter update, then verifyPin returns mode null
FailStats(p) ==
  /\ pc[p] = "fail_stats"
  /\ \/ /\ stats' = IncFailedAttempts(stats)
        /\ UNCHANGED logErrors
     \/ /\ logErrors' = logErrors + 1
        /\ UNCHANGED stats
  /\ FinishVerify(p, "null")
  /\ UNCHANGED <<user, alerts, sent, calls, op, aid, tok, pins, setup, failed, unlocks, chosen, change>>

\* ------------------------------------- sendVerificationSms / verifySmscode

\* a phone verification callable is entered (it reads the wall clock, not
\* the request clock)
EnterOtp(p, name) ==
  /\ Free(p)
  /\ \A q \in Procs : q < p => ~Free(q)
  /\ op' = [op EXCEPT ![p] = name]

\* the callable ends with result r; its locals are gone
FinishOtp(p, r) ==
  /\ Finish(p, r)
  /\ loc' = [loc EXCEPT ![p] = NoLocals]

\* time passes
Tick ==
  /\ clock < MaxTime
  /\ clock' = clock + 1
  /\ UNCHANGED <<user, alerts, sent, calls, pc, op, aid, tok, res, pinvars, otp, phone, loc>>

\* the document sendVerificationSms sets: createdAt and expiresAt are read
\* from the clock in the same synchronous expression
Challenge(code, phoneNumber, now) ==
  [exists      |-> TRUE,
   code        |-> code,
   phoneNumber |-> phoneNumber,
   createdAt   |-> now,
   expiresAt   |-> now + TenMinutes,
   attempts    |-> 0]

\* sendVerificationSms: endpoint check, then SmsService.sendVerificationCode
\* hands the SMS with its code to the gateway (which may refuse it).  The
\* code, Math.random() in 100000..999999, is drawn where it is first
\* stored, in IssueSet.
sendVerificationSms(p, phoneNumber) ==
  /\ EnterOtp(p, "issue")
  /\ IF phoneNumber = NoPhone
       THEN FinishOtp(p, "invalid-argument")
       ELSE \/ /\ loc' = [loc EXCEPT ![p] = [code |-> NoCode, phoneNumber |-> phoneNumber, attempts |-> 0]]
               /\ pc'  = [pc EXCEPT ![p] = "otp_set"]
               /\ res' = [res EXCEPT ![p] = "none"]
            \/ FinishOtp(p, "internal")
  /\ UNCHANGED <<user, alerts, sent, calls, aid, tok, pinvars, otp, phone, clock>>

\* mutant: the new challenge is merged into the stored document and keeps
\* its attempts
IssueWriteKeepsAttempts(doc, code, phoneNumber, now) ==
  [Challenge(code, phoneNumber, now) EXCEPT !.attempts = doc.attempts]

\* verification_codes/{uid}.set({...}) without merge: the document is
\* replaced
IssueWrite(doc, code, phoneNumber, now) == Challenge(code, phoneNumber, now)

\* sendVerificationSms: the set of the challenge, then success
IssueSet(p) ==
  /\ pc[p] = "otp_set"
  /\ \/ /\ \E code \in Codes : otp' = IssueWrite(otp, code, loc[p].phoneNumber, clock)
        /\ FinishOtp(p, "ok")
     \/ /\ UNCHANGED otp
        /\ FinishOtp(p, "internal")
  /\ UNCHANGED <<user, alerts, sent, calls, op, aid, tok, pinvars, phone, clock>>

\* mutant: the attempts limit is tested before the expiry
CheckLockedFirst(code, doc, now) ==
  IF ~doc.exists THEN "not-found"
  ELSE IF doc.attempts >= MaxOtpAttempts THEN "locked"
  ELSE IF now > doc.expiresAt THEN "expired"
  ELSE IF code # doc.code THEN "mismatch"
  ELSE "match"

\* mutant: a correct code is accepted before the attempts limit is tested
CheckCodeBeforeLimit(code, doc, now) ==
  IF ~doc.exists THEN "not-found"
  ELSE IF now > doc.expiresAt THEN "expired"
  ELSE IF code = doc.code THEN "match"
  ELSE IF doc.attempts >= MaxOtpAttempts THEN "locked"
  ELSE "mismatch"

\* verifySmscode: the checks on the document read, in source order;
\* "expired" is HttpsError('invalid-argument', 'El código ha expirado'),
\* "locked" is HttpsError('permission-denied', ...), "mismatch" is
\* HttpsError('invalid-argument', 'Código incorrecto')
Check(code, doc, now) ==
  IF ~doc.exists THEN "not-found"
  ELSE IF now > doc.expiresAt THEN "expired"
  ELSE IF doc.attempts >= MaxOtpAttempts THEN "locked"
  ELSE IF code # doc.code THEN "mismatch"
  ELSE "match"

\* verifySmscode: endpoint check, read of the challenge, the checks.  A
\* wrong code leaves the handler at the attempts update, holding the
\* attempts it read; a correct code leaves it at the user update, holding
\* the phone number it read
verifySmscode(p, code) ==
  /\ EnterOtp(p, "verifycode")
  /\ IF code = NoCode
       THEN FinishOtp(p, "invalid-argument")
       ELSE IF Check(code, otp, clock) \in {"not-found", "expired", "locked"}
         THEN FinishOtp(p, Check(code, otp, clock))
         ELSE /\ pc'  = [pc EXCEPT ![p] = IF Check(code, otp, clock) = "match" THEN "otp_user" ELSE "otp_inc"]
              /\ res' = [res EXCEPT ![p] = "none"]
              /\ loc' = [loc EXCEPT ![p] =
                          IF Check(code, otp, clock) = "match"
                            THEN [code |-> code, phoneNumber |-> otp.phoneNumber, attempts |-> 0]
                            ELSE [code |-> code, phoneNumber |-> NoPhone, attempts |-> otp.attempts]]
  /\ UNCHANGED <<user, alerts, sent, calls, aid, tok, pinvars, otp, phone, clock>>

\* mutant: the counter is incremented in the store (FieldValue.increment)
AttemptsWriteAtomic(doc, read) == [doc EXCEPT !.attempts = @ + 1]

\* verificationDoc.ref.update({attempts: verificationData.attempts + 1}):
\* the value read by this call plus one
AttemptsWrite(doc, read) == [doc EXCEPT !.attempts = read + 1]

\* verifySmscode, wrong code: the attempts update (rejected when the store
\* refuses it or the document is gone), then 'Código incorrecto'
VerifyInc(p) ==
  /\ pc[p] = "otp_inc"
  /\ \/ /\ otp.exists
        /\ otp' = AttemptsWrite(otp, loc[p].attempts)
        /\ FinishOtp(p, "mismatch")
     \/ /\ UNCHANGED otp
        /\ FinishOtp(p, "internal")
  /\ UNCHANGED <<user, alerts, sent, calls, op, aid, tok, pinvars, phone, clock>>

\* verifySmscode, correct code: users/{uid}.update({phoneVerified: true,
\* phoneNumber: verificationData.phoneNumber, ...})
VerifyUser(p) ==
  /\ pc[p] = "otp_user"
  /\ \/ /\ phone' = [verified |-> TRUE, number |-> loc[p].phoneNumber]
        /\ pc' = [pc EXCEPT ![p] = "otp_delete"]
        /\ UNCHANGED <<res, loc>>
     \/ /\ UNCHANGED phone
        /\ FinishOtp(p, "internal")
  /\ UNCHANGED <<user, alerts, sent, calls, op, aid, tok, pinvars, otp, clock>>

\* mutant: the challenge is kept after a success
ConsumeKeeps(doc) == doc

\* verificationDoc.ref.delete()
Consume(doc) == NoChallenge

\* verifySmscode, correct code: the delete of the challenge, then success
VerifyDelete(p) ==
  /\ pc[p] = "otp_delete"
  /\ \/ /\ otp' = Consume(otp)
        /\ FinishOtp(p, "ok")
     \/ /\ UNCHANGED otp
        /\ FinishOtp(p, "internal")
  /\ UNCHANGED <<user, alerts, sent, calls, op, aid, tok, pinvars, phone, clock>>

Next ==
  \/ \E p \in Procs, t \in TriggerTypes : activateSecurityMode(p, t) /\ UNCHANGED <<pinvars, otpvars, listvars, authvars>>
  \/ \E p \in Procs : PushRead(p) /\ UNCHANGED <<pinvars, otpvars, listvars, authvars>>
  \/ \E p \in Procs : PushSend(p) /\ UNCHANGED <<pinvars, otpvars, listvars, authvars>>
  \/ \E p \in Procs : PushCleanup(p) /\ UNCHANGED <<pinvars, otpvars, listvars, authvars>>
  \/ \E p \in Procs, a \in AlertIds \cup {NoAlert} : deactivateSecurityMode(p, a) /\ UNCHANGED <<pinvars, otpvars, listvars, authvars>>
  \/ \E p \in Procs, a \in AlertIds \cup {NoAlert} : lockDeviceRemotely(p, a) /\ UNCHANGED <<pinvars, otpvars, listvars, authvars>>
  \/ \E p \in Procs, a \in AlertIds \cup {NoAlert} : wipeDeviceRemotely(p, a) /\ UNCHANGED <<pinvars, otpvars, listvars, authvars>>
  \/ \E p \in Procs : CommandRead(p) /\ UNCHANGED <<pinvars, otpvars, listvars, authvars>>
  \/ \E p \in Procs : CommandSend(p) /\ UNCHANGED <<pinvars, otpvars, listvars, authvars>>
  \/ \E p \in Procs : CommandCleanup(p) /\ UNCHANGED <<pinvars, otpvars, listvars, authvars>>
  \/ \E p \in Procs, a \in AlertIds \cup {NoAlert} : deactivateAlertOnUnlock(p, a) /\ UNCHANGED <<pinvars, otpvars, listvars, authvars>>
  \/ \E p \in Procs, e \in EventTypes \cup {NoEvent} : logSecurityEvent(p, e) /\ UNCHANGED <<pinvars, otpvars, listvars, authvars>>
  \/ \E p \in Procs, k \in Tokens \cup {NoToken} : updateFCMToken(p, k) /\ UNCHANGED <<pinvars, otpvars, listvars, authvars>>

Spec == Init /\ [][Next]_vars

\* only the triggers run (with token registration): concurrent activates
NextActivate ==
  \/ \E p \in Procs, t \in TriggerTypes : activateSecurityMode(p, t) /\ UNCHANGED <<pinvars, otpvars, listvars, authvars>>
  \/ \E p \in Procs : PushRead(p) /\ UNCHANGED <<pinvars, otpvars, listvars, authvars>>
  \/ \E p \in Procs : PushSend(p) /\ UNCHANGED <<pinvars, otpvars, listvars, authvars>>
  \/ \E p \in Procs : PushCleanup(p) /\ UNCHANGED <<pinvars, otpvars, listvars, authvars>>
  \/ \E p \in Procs, k \in Tokens \cup {NoToken} : updateFCMToken(p, k) /\ UNCHANGED <<pinvars, otpvars, listvars, authvars>>

SpecActivate == Init /\ [][NextActivate]_vars

\* the PIN operations (with token registration): savePins, verifyPin and
\* the activate and notification that verifyPin runs
NextPin ==
  \/ \E p \in Procs : savePins(p, chosen[1], chosen[2]) /\ UNCHANGED <<otpvars, listvars, authvars>>
  \/ \E p \in Procs : SaveSetup(p) /\ UNCHANGED <<otpvars, listvars, authvars>>
  \/ \E p \in Procs, n \in PinInputs : verifyPin(p, n) /\ UNCHANGED <<otpvars, listvars, authvars>>
  \/ \E p \in Procs : UnlockAdd(p) /\ UNCHANGED <<otpvars, listvars, authvars>>
  \/ \E p \in Procs : UnlockStats(p) /\ UNCHANGED <<otpvars, listvars, authvars>>
  \/ \E p \in Procs : VerifyActivate(p) /\ UNCHANGED <<otpvars, listvars, authvars>>
  \/ \E p \in Procs : FailAdd(p) /\ UNCHANGED <<otpvars, listvars, authvars>>
  \/ \E p \in Procs : FailStats(p) /\ UNCHANGED <<otpvars, listvars, authvars>>
  \/ \E p \in Procs : PushRead(p) /\ UNCHANGED <<pinvars, otpvars, listvars, authvars>>
  \/ \E p \in Procs : PushSend(p) /\ UNCHANGED <<pinvars, otpvars, listvars, authvars>>
  \/ \E p \in Procs : PushCleanup(p) /\ UNCHANGED <<pinvars, otpvars, listvars, authvars>>
  \/ \E p \in Procs, k \in Tokens \cup {NoToken} : updateFCMToken(p, k) /\ UNCHANGED <<pinvars, otpvars, listvars, authvars>>

SpecPin == InitPin /\ [][NextPin]_vars

\* the new PINs a changePins request carries, as <<newNormalPin,
\* newSecurityPin>>: one missing, a pair savePins accepts, an equal pair
NewPinInputs == {<<<<"4", "3", "2", "1">>, NoPin>>,
                 <<<<"4", "3", "2", "1">>, <<"8", "7", "6", "5">>>>,
                 <<<<"4", "3", "2", "1">>, <<"4", "3", "2", "1">>>>}

\* the PIN operations with changePins (and token registration)
NextChange ==
  \/ \E p \in Procs : savePins(p, chosen[1], chosen[2]) /\ UNCHANGED <<otpvars, listvars, authvars>>
  \/ \E p \in Procs : SaveSetup(p) /\ UNCHANGED <<otpvars, listvars, authvars>>
  \/ \E p \in Procs, c \in PinInputs, n \in NewPinInputs : changePins(p, c, n[1], n[2]) /\ UNCHANGED <<otpvars, listvars, authvars>>
  \/ \E p \in Procs : ChangeSave(p) /\ UNCHANGED <<otpvars, listvars, authvars>>
  \/ \E p \in Procs : UnlockAdd(p) /\ UNCHANGED <<otpvars, listvars, authvars>>
  \/ \E p \in Procs : UnlockStats(p) /\ UNCHANGED <<otpvars, listvars, authvars>>
  \/ \E p \in Procs : VerifyActivate(p) /\ UNCHANGED <<otpvars, listvars, authvars>>
  \/ \E p \in Procs : FailAdd(p) /\ UNCHANGED <<otpvars, listvars, authvars>>
  \/ \E p \in Procs : FailStats(p) /\ UNCHANGED <<otpvars, listvars, authvars>>
  \/ \E p \in Procs : PushRead(p) /\ UNCHANGED <<pinvars, otpvars, listvars, authvars>>
  \/ \E p \in Procs : PushSend(p) /\ UNCHANGED <<pinvars, otpvars, listvars, authvars>>
  \/ \E p \in Procs : PushCleanup(p) /\ UNCHANGED <<pinvars, otpvars, listvars, authvars>>
  \/ \E p \in Procs, k \in Tokens \cup {NoToken} : updateFCMToken(p, k) /\ UNCHANGED <<pinvars, otpvars, listvars, authvars>>

SpecChange == InitPin /\ [][NextChange]_vars

\* config/pins as provisioning or a data migration left it: the hashes of
\* any two PINs of 4 to 6 digits, the two PINs being equal included (then
\* with the same salt, a copied hash, or with another one)
ProvisionedPins == {<<"1", "2", "3", "4">>, <<"6", "5", "4", "3", "2", "1">>}

InitMigrated ==
  /\ InitUser
  /\ older = 0
  /\ setup = TRUE
  /\ chosen \in ProvisionedPins \X ProvisionedPins
  /\ \E k \in (IF chosen[1] = chosen[2] THEN {1, 2} ELSE {2}) :
       pins = PinsDoc(chosen[1], chosen[2], 1, k)

\* verifyPin alone, on a config/pins document that is already stored
NextVerify ==
  \/ \E p \in Procs, n \in PinInputs : verifyPin(p, n) /\ UNCHANGED <<otpvars, listvars, authvars>>
  \/ \E p \in Procs : UnlockAdd(p) /\ UNCHANGED <<otpvars, listvars, authvars>>
  \/ \E p \in Procs : UnlockStats(p) /\ UNCHANGED <<otpvars, listvars, authvars>>
  \/ \E p \in Procs : VerifyActivate(p) /\ UNCHANGED <<otpvars, listvars, authvars>>
  \/ \E p \in Procs : FailAdd(p) /\ UNCHANGED <<otpvars, listvars, authvars>>
  \/ \E p \in Procs : FailStats(p) /\ UNCHANGED <<otpvars, listvars, authvars>>
  \/ \E p \in Procs : PushRead(p) /\ UNCHANGED <<pinvars, otpvars, listvars, authvars>>

SpecVerify == InitMigrated /\ [][NextVerify]_vars

\* phone verification: issue and verify, every request carrying its
\* argument, with the clock running
NextOtp ==
  \/ \E p \in Procs, n \in PhoneNumbers : sendVerificationSms(p, n) /\ UNCHANGED <<wrong, listvars, authvars>>
  \/ \E p \in Procs : IssueSet(p) /\ UNCHANGED <<wrong, listvars, authvars>>
  \/ \E p \in Procs, c \in Codes : verifySmscode(p, c) /\ UNCHANGED <<wrong, listvars, authvars>>
  \/ \E p \in Procs : VerifyInc(p) /\ UNCHANGED <<wrong, listvars, authvars>>
  \/ \E p \in Procs : VerifyUser(p) /\ UNCHANGED <<wrong, listvars, authvars>>
  \/ \E p \in Procs : VerifyDelete(p) /\ UNCHANGED <<wrong, listvars, authvars>>
  \/ Tick /\ UNCHANGED <<wrong, listvars, authvars>>

SpecOtp == Init /\ [][NextOtp]_vars

\* ---------------------------------------------------- getSecurityAlerts

\* .where('resolved', '==', false): the ids of the matching documents that
\* the behaviour created
Unresolved(al) == {a \in 1..Len(al) : ~al[a].resolved}

\* .where('resolved', '==', false).limit(10).get(): the query has no
\* orderBy, so it walks the matching documents in the order of their
\* auto-generated names and stops after QueryLimit of them.  With n older
\* matching documents, the ids returned are any set that, filled up with
\* older documents, makes the first QueryLimit (or all, if fewer match)
QueryResults(al, n) ==
  LET total == n + Cardinality(Unresolved(al))
      k     == IF total < QueryLimit THEN total ELSE QueryLimit
  IN  {R \in SUBSET Unresolved(al) : Cardinality(R) <= k /\ k - Cardinality(R) <= n}

\* getSecurityAlerts -> UsersService.getSecurityAlerts(uid): one read
getSecurityAlerts(p) ==
  /\ Enter(p, "getSecurityAlerts", NoAlert)
  /\ \E R \in QueryResults(alerts, older) : listed' = [listed EXCEPT ![p] = R]
  /\ Finish(p, "ok")
  /\ UNCHANGED <<user, alerts, sent, tok, older>>

\* the user has been through earlier triggers: some of their alerts, up to
\* a full page of the query, are still unresolved
InitListed ==
  /\ InitUser
  /\ pins = NoPins
  /\ setup = FALSE
  /\ chosen = <<NoPin, NoPin>>
  /\ older \in 0..QueryLimit

\* the triggers, their notification, and the listing of unresolved alerts
NextListed ==
  \/ \E p \in Procs, t \in TriggerTypes : activateSecurityMode(p, t) /\ UNCHANGED <<pinvars, otpvars, listvars, authvars>>
  \/ \E p \in Procs : PushRead(p) /\ UNCHANGED <<pinvars, otpvars, listvars, authvars>>
  \/ \E p \in Procs : PushSend(p) /\ UNCHANGED <<pinvars, otpvars, listvars, authvars>>
  \/ \E p \in Procs : PushCleanup(p) /\ UNCHANGED <<pinvars, otpvars, listvars, authvars>>
  \/ \E p \in Procs, k \in Tokens \cup {NoToken} : updateFCMToken(p, k) /\ UNCHANGED <<pinvars, otpvars, listvars, authvars>>
  \/ \E p \in Procs : getSecurityAlerts(p) /\ UNCHANGED <<pinvars, otpvars, authvars>>

SpecListed == InitListed /\ [][NextListed]_vars

\* ------------------------------------------------------- caller identity

\* the callables of index.ts that start with checkAuth(context): all but
\* registerUser
Callables ==
  {"savePins", "verifyPin", "saveProtectedApps", "setProtectionLevel",
   "getUserConfig", "changePins", "reportAbnormalMovement",
   "reportSuspiciousSpeed", "triggerPanicButton", "lockDeviceRemotely",
   "wipeDeviceRemotely", "deactivateSecurityMode", "updateFCMToken",
   "getSetupStatus", "updateUserProfile", "getActivityFeed",
   "getSecurityAlerts", "logSecurityEvent", "deactivateAlertOnUnlock",
   "sendVerificationSms", "verifySmscode"}

\* index.ts checkAuth: throws HttpsError('unauthenticated') without
\* context.auth, returns the uid otherwise
checkAuth(a) == IF ~a THEN "unauthenticated" ELSE "uid"

\* a callable of index.ts is invoked without context.auth: its first
\* statement, checkAuth(context), throws
Unauthenticated(p, name) ==
  /\ Enter(p, name, NoAlert)
  /\ auth' = [auth EXCEPT ![p] = FALSE]
  /\ Finish(p, checkAuth(FALSE))
  /\ UNCHANGED <<user, alerts, sent, tok, secEvents, target>>

\* an authenticated call starts
Authenticated(p) == auth' = [auth EXCEPT ![p] = TRUE] /\ UNCHANGED <<secEvents, target>>

\* security.ts reportSecurityEvent: if (!uid) return {success: false,
\* message: 'No autorizado'}; otherwise security_events.add(...), then
\* notifyEmergencyContacts (a read and console.log lines).  The add is not
\* inside a try: when it rejects, the callable fails with internal
reportSecurityEvent(p, a) ==
  /\ Enter(p, "reportSecurityEvent", NoAlert)
  /\ auth' = [auth EXCEPT ![p] = a]
  /\ IF ~a
       THEN /\ Finish(p, "No autorizado")
            /\ UNCHANGED secEvents
       ELSE \/ /\ secEvents' = Append(secEvents, Caller)
               /\ Finish(p, "ok")
            \/ /\ UNCHANGED secEvents
               /\ Finish(p, "internal")
  /\ UNCHANGED <<user, alerts, sent, tok, target>>

\* users/{userId}.data()?.fcmToken, for the userId of the request data
TokenOf(userId) == IF userId = Caller THEN user.fcmToken ELSE OtherToken

\* the BLOCK data message of blockDeviceRemotely
BlockMessage(token) ==
  [kind |-> "data", command |-> "BLOCK", alertId |-> NoAlert, token |-> token]

\* security.ts blockDeviceRemotely: the user document that is read and
\* the userId the event is attributed to come from data.userId
TargetOf(userId) == userId

\* security.ts blockDeviceRemotely: identity test, then the read of
\* users/{data.userId}; without a token it returns {success: false,
\* message: 'Dispositivo no encontrado'}
blockDeviceRemotely(p, a, userId) ==
  /\ Enter(p, "blockDeviceRemotely", NoAlert)
  /\ auth' = [auth EXCEPT ![p] = a]
  /\ IF ~a
       THEN /\ Finish(p, "No autorizado")
            /\ UNCHANGED <<tok, target>>
       ELSE IF TokenOf(TargetOf(userId)) = NoToken
         THEN /\ Finish(p, "Dispositivo no encontrado")
              /\ UNCHANGED <<tok, target>>
         ELSE /\ tok' = [tok EXCEPT ![p] = TokenOf(TargetOf(userId))]
              /\ target' = [target EXCEPT ![p] = TargetOf(userId)]
              /\ pc'  = [pc EXCEPT ![p] = "blk_send"]
              /\ res' = [res EXCEPT ![p] = "none"]
  /\ UNCHANGED <<user, alerts, sent, secEvents>>

\* await admin.messaging().send({token, data: {command: 'BLOCK', ...}});
\* nothing catches a rejection: the callable fails with internal
BlockSend(p) ==
  /\ pc[p] = "blk_send"
  /\ \/ /\ sent' = Append(sent, BlockMessage(tok[p]))
        /\ pc'   = [pc EXCEPT ![p] = "blk_add"]
        /\ UNCHANGED <<res, tok, target>>
     \/ /\ UNCHANGED sent
        /\ FinishSend(p, "internal")
        /\ target' = [target EXCEPT ![p] = Caller]
  /\ UNCHANGED <<user, alerts, calls, op, aid, auth, secEvents>>

\* await security_events.add({userId, eventType: 'REMOTE_BLOCK', ...})
BlockAdd(p) ==
  /\ pc[p] = "blk_add"
  /\ \/ /\ secEvents' = Append(secEvents, target[p])
        /\ FinishSend(p, "ok")
     \/ /\ UNCHANGED secEvents
        /\ FinishSend(p, "internal")
  /\ target' = [target EXCEPT ![p] = Caller]
  /\ UNCHANGED <<user, alerts, sent, calls, op, aid, auth>>

\* the triggers and token registration called by an authenticated owner,
\* every callable called without identity, and the callables of security.ts
NextAuth ==
  \/ \E p \in Procs, t \in TriggerTypes : activateSecurityMode(p, t) /\ Authenticated(p) /\ UNCHANGED <<pinvars, otpvars, listvars>>
  \/ \E p \in Procs : PushRead(p) /\ UNCHANGED <<pinvars, otpvars, listvars, authvars>>
  \/ \E p \in Procs : PushSend(p) /\ UNCHANGED <<pinvars, otpvars, listvars, authvars>>
  \/ \E p \in Procs : PushCleanup(p) /\ UNCHANGED <<pinvars, otpvars, listvars, authvars>>
  \/ \E p \in Procs, k \in Tokens \cup {NoToken} : updateFCMToken(p, k) /\ Authenticated(p) /\ UNCHANGED <<pinvars, otpvars, listvars>>
  \/ \E p \in Procs, name \in Callables : Unauthenticated(p, name) /\ UNCHANGED <<pinvars, otpvars, listvars>>
  \/ \E p \in Procs, a \in BOOLEAN : reportSecurityEvent(p, a) /\ UNCHANGED <<pinvars, otpvars, listvars>>
  \/ \E p \in Procs, a \in BOOLEAN, u \in Uids : blockDeviceRemotely(p, a, u) /\ UNCHANGED <<pinvars, otpvars, listvars>>
  \/ \E p \in Procs : BlockSend(p) /\ UNCHANGED <<pinvars, otpvars, listvars>>
  \/ \E p \in Procs : BlockAdd(p) /\ UNCHANGED <<pinvars, otpvars, listvars>>

SpecAuth == Init /\ [][NextAuth]_vars

\* the history variable `wrong`: the calls answered 'Código incorrecto' since
\* the stored challenge was set (counted up to one past the limit)
CountWrong(p) ==
  wrong' = IF res'[p] = "mismatch" /\ wrong <= MaxOtpAttempts THEN wrong + 1 ELSE wrong

ResetWrong(p) ==
  wrong' = IF res'[p] = "ok" THEN 0 ELSE wrong

\* phone verification with the wrong answers counted
NextOtpCount ==
  \/ \E p \in Procs, n \in PhoneNumbers : sendVerificationSms(p, n) /\ UNCHANGED <<wrong, listvars, authvars>>
  \/ \E p \in Procs : IssueSet(p) /\ ResetWrong(p) /\ UNCHANGED <<listvars, authvars>>
  \/ \E p \in Procs, c \in Codes : verifySmscode(p, c) /\ UNCHANGED <<wrong, listvars, authvars>>
  \/ \E p \in Procs : VerifyInc(p) /\ CountWrong(p) /\ UNCHANGED <<listvars, authvars>>
  \/ \E p \in Procs : VerifyUser(p) /\ UNCHANGED <<wrong, listvars, authvars>>
  \/ \E p \in Procs : VerifyDelete(p) /\ UNCHANGED <<wrong, listvars, authvars>>
  \/ Tick /\ UNCHANGED <<wrong, listvars, authvars>>

SpecOtpCount == Init /\ [][NextOtpCount]_vars

\* ------------------------------------------------------------ properties

\* this step is request p entering the callable `name`
Starts(p, name) ==
  /\ calls' = calls + 1
  /\ Free(p)
  /\ \A q \in Procs : q < p => ~Free(q)
  /\ op'[p] = name

IsActivate(p) == op[p] \in TriggerTypes
Committed(p)  == pc[p] \in {"push_read", "push_send", "push_cleanup", "cmd_read", "cmd_send", "cmd_cleanup"}
ActiveAlerts  == {i \in 1..Len(alerts) : alerts[i].status = "active"}
OthersKept(a) ==
  /\ Len(alerts') = Len(alerts)
  /\ \A i \in 1..Len(alerts) : i # a => alerts'[i] = alerts[i]

\* C1: activate's batch is all-or-nothing.  A step that enters a trigger
\* either commits both writes (a new alert with status active and resolved
\* false is appended, and the user is in security mode with alertActive
\* true and modeActivatedAt set) or fails with neither write visible.
C1_ActivateAllOrNothing ==
  [][\A p \in Procs, t \in TriggerTypes : Starts(p, t) =>
       \/ /\ pc'[p] = "push_read"
          /\ Len(alerts') = Len(alerts) + 1
          /\ SubSeq(alerts', 1, Len(alerts)) = alerts
          /\ aid'[p] = Len(alerts')
          /\ alerts'[aid'[p]].status = "active"
          /\ alerts'[aid'[p]].resolved = FALSE
          /\ user'.currentMode = "security"
          /\ user'.alertActive = TRUE
          /\ user'.modeActivatedAt # Null
       \/ /\ pc'[p] = "done"
          /\ res'[p] = "internal"
          /\ alerts' = alerts
          /\ user' = user]_vars

C1_Witness ==
  \E p \in Procs :
    /\ IsActivate(p) /\ pc[p] = "push_read"
    /\ AlertExists(aid[p])
    /\ alerts[aid[p]].status = "active"
    /\ user.currentMode = "security" /\ user.alertActive

\* C2: deactivate is all-or-nothing for the caller.  Entering with an
\* alertId either commits the resolution of the named alert together with
\* the reset of the user record, or changes neither; and a call whose
\* batch has committed does not end in an error.
C2_DeactivateAllOrNothing ==
  [][\A p \in Procs :
       /\ (Starts(p, "deactivate") /\ aid'[p] # NoAlert) =>
            \/ /\ pc'[p] = "cmd_read"
               /\ alerts'[aid'[p]].status = "resolved"
               /\ alerts'[aid'[p]].resolved = TRUE
               /\ alerts'[aid'[p]].resolutionType = "false_alarm"
               /\ alerts'[aid'[p]].resolvedAt # Null
               /\ user'.currentMode = "normal"
               /\ user'.alertActive = FALSE
               /\ user'.modeActivatedAt = Null
            \/ /\ pc'[p] = "done"
               /\ res'[p] # "ok"
               /\ alerts' = alerts
               /\ user' = user
       /\ (op[p] = "deactivate" /\ Committed(p) /\ pc'[p] = "done") =>
            res'[p] = "ok"]_vars

\* C3: security.alertActive is true iff the user has an alert with status
\* active.
C3_AlertActiveIffActiveAlert ==
  user.alertActive <=> (ActiveAlerts # {})

\* C4: a lock or wipe request reaches the token lookup and the provider
\* send only with its pending audit entry committed on the named alert,
\* and every lock_device / wipe_data message the provider accepted has
\* that entry.
AuditKey(command) ==
  IF command \in {"lock", "lock_device"} THEN "lockDevice" ELSE "wipeData"

HasPendingEntry(a, key) ==
  /\ AlertExists(a)
  /\ alerts[a].commands[key].status = "pending"
  /\ alerts[a].commands[key].requestedAt # Null

C4_AuditBeforeSend ==
  /\ \A p \in Procs :
       (op[p] \in {"lock", "wipe"} /\ Committed(p)) =>
         HasPendingEntry(aid[p], AuditKey(op[p]))
  /\ \A i \in 1..Len(sent) :
       sent[i].command \in {"lock_device", "wipe_data"} =>
         HasPendingEntry(sent[i].alertId, AuditKey(sent[i].command))

C4_Witness ==
  \E i \in 1..Len(sent) :
    /\ sent[i].command \in {"lock_device", "wipe_data"}
    /\ HasPendingEntry(sent[i].alertId, AuditKey(sent[i].command))

\* C5: with only activates running, every activate whose batch committed
\* holds an alert of its own: distinct requests hold distinct alert ids,
\* each alert is active and carries the type of its trigger, and the user
\* is in security mode.
HoldsAlert(p) == IsActivate(p) /\ aid[p] # NoAlert

C5_ConcurrentActivates ==
  /\ \A p \in Procs : HoldsAlert(p) =>
       /\ AlertExists(aid[p])
       /\ alerts[aid[p]].type = op[p]
       /\ alerts[aid[p]].status = "active"
       /\ user.currentMode = "security" /\ user.alertActive
  /\ \A p, q \in Procs : (HoldsAlert(p) /\ HoldsAlert(q) /\ p # q) => aid[p] # aid[q]
  /\ Cardinality(ActiveAlerts) >= Cardinality({p \in Procs : HoldsAlert(p)})

C5_Witness ==
  /\ \A p \in Procs : HoldsAlert(p) /\ pc[p] = "done" /\ res[p] = "ok"
  /\ Cardinality(ActiveAlerts) = NumProcs

\* C6: deactivate changes no alert but the named one; the other alerts keep
\* every field, so an active one stays active while the mode is reset.
C6_DeactivateTouchesOneAlert ==
  [][\A p \in Procs : Starts(p, "deactivate") => OthersKept(aid'[p])]_vars

C6_Witness ==
  \E p \in Procs :
    /\ op[p] = "deactivate" /\ pc[p] = "cmd_read"
    /\ user.currentMode = "normal"
    /\ \E i \in ActiveAlerts : i # aid[p]

\* C7: a second deactivate of an alert that deactivate already resolved
\* leaves currentMode normal, does not re-stamp the alert and does not go
\* on to send another exit-security-mode command.
C7_DeactivateIdempotent ==
  [][\A p \in Procs :
       ( /\ Starts(p, "deactivate")
         /\ AlertExists(aid'[p])
         /\ alerts[aid'[p]].status = "resolved"
         /\ alerts[aid'[p]].resolutionType = "false_alarm" ) =>
       ( /\ user'.currentMode = "normal"
         /\ alerts' = alerts
         /\ pc'[p] = "done" )]_vars

\* C8: deactivate, lockDevice and wipeData entered without an alertId end
\* at once with invalid-argument; user, alerts and provider are untouched.
C8_MissingAlertIdRejected ==
  [][\A p \in Procs, name \in {"deactivate", "lock", "wipe"} :
       (Starts(p, name) /\ aid'[p] = NoAlert) =>
         /\ pc'[p] = "done"
         /\ res'[p] = "invalid-argument"
         /\ UNCHANGED store]_vars

C8_Witness ==
  \E p \in Procs :
    /\ op[p] \in {"deactivate", "lock", "wipe"}
    /\ aid[p] = NoAlert
    /\ pc[p] = "done" /\ res[p] = "invalid-argument"
    /\ Len(alerts) > 0

\* C9: the unlock deactivation resolves the named alert with
\* unlocked_successfully and, in the same step, resets the user record to
\* normal / alertActive false / modeActivatedAt null.
C9_UnlockIsFullDeactivate ==
  [][\A p \in Procs :
       (Starts(p, "unlock") /\ res'[p] = "ok") =>
         /\ alerts'[aid'[p]].status = "resolved"
         /\ alerts'[aid'[p]].resolutionType = "unlocked_successfully"
         /\ user'.currentMode = "normal"
         /\ user'.alertActive = FALSE
         /\ user'.modeActivatedAt = Null]_vars

\* C10: an alert is created only in a step that also puts the user into
\* security mode (activate), and an existing alert changes only in its
\* commands entries (dispatcher) or by being resolved in a step that also
\* resets the user record (deactivate).
OnlyCommandsChanged(i) ==
  [alerts'[i] EXCEPT !.commands = alerts[i].commands] = alerts[i]

C10_AlertsOnlyByActivateAndDeactivate ==
  [][/\ Len(alerts') # Len(alerts) =>
          /\ Len(alerts') = Len(alerts) + 1
          /\ user'.currentMode = "security"
          /\ user'.alertActive = TRUE
          /\ user'.modeActivatedAt = Now
     /\ \A i \in 1..Len(alerts) :
          alerts'[i] # alerts[i] =>
            \/ OnlyCommandsChanged(i)
            \/ /\ alerts'[i].status = "resolved"
               /\ user'.currentMode = "normal"
               /\ user'.alertActive = FALSE
               /\ user'.modeActivatedAt = Null]_vars


\* C11: on every alert the resolved flag mirrors the status: resolved is
\* TRUE exactly when status is "resolved", the status is never anything but
\* active or resolved, and no step writes one of the two fields of an alert
\* without the other.
C11_ResolvedMirrorsStatus ==
  /\ \A i \in 1..Len(alerts) :
       /\ alerts[i].status \in {"active", "resolved"}
       /\ alerts[i].resolved <=> (alerts[i].status = "resolved")
  /\ \A p \in Procs :
       AlertExists(aid[p]) /\ pc[p] = "done" /\ res[p] = "ok"
         /\ op[p] \in {"deactivate", "unlock"} =>
           alerts[aid[p]].resolved /\ alerts[aid[p]].status = "resolved"

\* an alert resolved by the unlock path next to one still active
C11_Witness ==
  \E i, j \in 1..Len(alerts) :
    /\ alerts[i].resolved /\ alerts[i].resolutionType = "unlocked_successfully"
    /\ ~alerts[j].resolved /\ alerts[j].status = "active"

\* C12: the owner notification of activate is best-effort.  Whatever way
\* sendPushNotification ends (no token, provider error, invalid token and
\* the token cleanup), the step that ends a committed activate returns
\* success and leaves the alerts and the user's mode fields as the batch
\* wrote them.
C12_NotificationBestEffort ==
  [][\A p \in Procs :
       (IsActivate(p) /\ Committed(p) /\ pc'[p] = "done") =>
         /\ res'[p] = "ok"
         /\ alerts' = alerts
         /\ user'.currentMode = user.currentMode
         /\ user'.alertActive = user.alertActive
         /\ user'.modeActivatedAt = user.modeActivatedAt]_vars

\* C13: token cleanup follows the provider's error code.  A send that the
\* provider rejects with an invalid / unregistered token code is followed
\* by a cleanup step after which the stored token is null and the call has
\* returned failure (a lock or wipe ends unavailable, nothing was handed to
\* the provider); a send that ends in any other way leaves the stored
\* token unchanged.
C13_TokenCleanupOnInvalid ==
  [][\A p \in Procs :
       /\ (pc[p] \in {"push_cleanup", "cmd_cleanup"} /\ pc'[p] = "done") =>
            /\ user'.fcmToken = NoToken
            /\ sent' = sent
            /\ res'[p] = IF op[p] \in {"lock", "wipe"} THEN "unavailable" ELSE "ok"
       /\ (pc[p] \in {"push_send", "cmd_send"} /\ pc'[p] = "done") =>
            user'.fcmToken = user.fcmToken]_vars

\* C14: an undelivered lock or wipe is reported.  Every step that ends a
\* lockDevice or wipeData request after its audit write without handing a
\* message to the provider (no token, provider error, invalid token) ends
\* it with the error unavailable, and a request that ends with success has
\* handed its message to the provider in that step.
C14_UndeliveredIsUnavailable ==
  [][\A p \in Procs :
       (op[p] \in {"lock", "wipe"} /\ Committed(p) /\ pc'[p] = "done") =>
         /\ (sent' = sent => res'[p] = "unavailable")
         /\ (res'[p] = "ok" =>
               /\ Len(sent') = Len(sent) + 1
               /\ sent'[Len(sent')].command = CommandOf(op[p])
               /\ sent'[Len(sent')].alertId = aid[p])]_vars

\* C15: a lock or wipe for a user with no registered push token.  When the
\* token lookup of a lockDevice or wipeData request finds no token, that
\* step ends the request with the error unavailable, nothing is handed to
\* the provider, and the audit entry of that command on the named alert is
\* present with status pending.
C15_NoTokenCommandFails ==
  [][\A p \in Procs :
       (op[p] \in {"lock", "wipe"} /\ pc[p] = "cmd_read"
          /\ user.fcmToken = NoToken /\ pc'[p] # pc[p]) =>
         /\ pc'[p] = "done"
         /\ res'[p] = "unavailable"
         /\ sent' = sent
         /\ alerts' = alerts
         /\ alerts'[aid[p]].commands[AuditKey(op[p])].status = "pending"
         /\ alerts'[aid[p]].commands[AuditKey(op[p])].requestedAt # Null]_vars

\* a wipe that ended unavailable with no token stored, nothing sent, and
\* its pending entry on the alert
C15_Witness ==
  \E p \in Procs :
    /\ op[p] = "wipe" /\ pc[p] = "done" /\ res[p] = "unavailable"
    /\ user.fcmToken = NoToken
    /\ sent = <<>>
    /\ HasPendingEntry(aid[p], "wipeData")

\* C16: command audit entries stay pending.  Every entry present in the
\* commands map of any alert has status "pending" (an absent key is the
\* only other content), and the steps that look up the token, send, and
\* clean up the token leave every alert as it was, whatever the delivery
\* outcome.
C16_AuditEntriesStayPending ==
  /\ [](\A i \in 1..Len(alerts) : \A k \in CommandKeys :
          \/ alerts[i].commands[k] = NoEntry
          \/ /\ alerts[i].commands[k].status = "pending"
             /\ alerts[i].commands[k].requestedAt # Null)
  /\ [][\A p \in Procs : (Committed(p) /\ pc'[p] # pc[p]) => alerts' = alerts]_vars

\* a lock that was delivered, with its entry still pending afterwards
C16_Witness ==
  \E p \in Procs :
    /\ op[p] = "lock" /\ pc[p] = "done" /\ res[p] = "ok"
    /\ HasPendingEntry(aid[p], "lockDevice")
    /\ \E i \in 1..Len(sent) : sent[i].command = "lock_device" /\ sent[i].alertId = aid[p]

\* the claims' notion of a well-formed PIN: digits only, 4 to 6 of them
WellFormedPin(x) == IsDigits(x) /\ Len(x) >= MinPinLen /\ Len(x) <= MaxPinLen

\* the owner's pair is two distinct well-formed PINs and a savePins of it
\* has returned success
RoundTripPair ==
  /\ setup
  /\ WellFormedPin(chosen[1]) /\ WellFormedPin(chosen[2])
  /\ chosen[1] # chosen[2]
  /\ \E k1, k2 \in Salts : pins = PinsDoc(chosen[1], chosen[2], k1, k2)

\* request p is a verifyPin in its security branch
InSecurityBranch(p) ==
  \/ pc[p] = "vp_activate"
  \/ op[p] = PinTrigger /\ pc[p] \in {"push_read", "push_send", "push_cleanup"}

SecurityReturnHasAlert(p, alertType) ==
  ModeReturned(p) = "security" =>
    /\ AlertExists(aid[p])
    /\ alerts[aid[p]].type = alertType
    /\ alerts[aid[p]].status = "active"
    /\ ~alerts[aid[p]].resolved
    /\ user.currentMode = "security"
    /\ user.alertActive

AtFailStats == {p \in Procs : pc[p] = "fail_stats"}

\* request p is a verifyPin whose PIN matched neither stored hash
InNoMatchBranch(p) == pc[p] \in {"fail_add", "fail_stats"}

\* the parts of C19 that do not count: a PIN that matches neither stored
\* hash takes the no-match branch, that branch returns mode null, and no
\* step of it creates an alert or changes the user's mode
NoMatchIsQuiet ==
  \A p \in Procs :
    /\ (Starts(p, "verify") /\ pins.exists /\ arg'[p] # NoPin
          /\ ~Compare(arg'[p], pins.normalPinHash)
          /\ ~Compare(arg'[p], pins.securityPinHash)) =>
         /\ pc'[p] = "fail_add"
         /\ UNCHANGED <<user, alerts, stats, failed>>
    /\ (InNoMatchBranch(p) /\ pc'[p] # pc[p]) =>
         /\ UNCHANGED <<user, alerts>>
         /\ pc'[p] = "done" => ModeReturned(p)' = "null"

\* C19 (as stated): verifyPin with a PIN that matches neither stored hash
\* returns mode null, creates no alert, leaves the mode alone, and
\* increases stats.failedAttempts by exactly 1 per call: the step that
\* ends such a call has the counter one higher than the step that began
\* its logging, however the calls interleave.
C19_FailedAttemptCounted ==
  [][/\ NoMatchIsQuiet
     /\ \A p \in Procs :
          (InNoMatchBranch(p) /\ pc'[p] = "done") =>
            /\ pc[p] = "fail_stats"
            /\ stats'.failedAttempts = stats.failedAttempts + 1]_vars

\* C19 (amended): the same, with the counter increased by exactly 1 per
\* call whose failed-attempt record and counter update are both written,
\* and by 0 for a call one of whose two writes is rejected (the rejection
\* is logged and swallowed): no increment is lost or doubled when calls
\* interleave.
C19_FailedAttemptCountedWhenWritten ==
  /\ [][NoMatchIsQuiet]_vars
  /\ [][\A p \in Procs :
          (InNoMatchBranch(p) /\ pc'[p] # pc[p]) =>
            /\ stats'.failedAttempts - stats.failedAttempts =
                 IF pc[p] = "fail_stats" /\ logErrors' = logErrors THEN 1 ELSE 0
            /\ Len(failed') - Len(failed) =
                 IF pc[p] = "fail_add" /\ logErrors' = logErrors THEN 1 ELSE 0]_vars
  /\ [](/\ stats.failedAttempts + Cardinality(AtFailStats) <= Len(failed)
        /\ Len(failed) <= stats.failedAttempts + Cardinality(AtFailStats) + logErrors)

\* two concurrent no-match calls were both counted
C19_Witness ==
  /\ stats.failedAttempts = 2
  /\ Len(failed) = 2
  /\ logErrors = 0
  /\ \A p \in Procs : ModeReturned(p) = "null"
  /\ alerts = <<>> /\ user.currentMode = "normal"

\* the pair savePins is called with is what the claim accepts: both PINs
\* present, digits only, of length 4 to 6, and different
WellFormedPair(normalPin, securityPin) ==
  /\ normalPin # NoPin /\ securityPin # NoPin
  /\ WellFormedPin(normalPin) /\ WellFormedPin(securityPin)
  /\ normalPin # securityPin

\* the stored hashes are those of some well-formed pair
StoredFromWellFormedPair ==
  \E n \in PinInputs, s \in PinInputs :
    /\ WellFormedPair(n, s)
    /\ Compare(n, pins.normalPinHash)
    /\ Compare(s, pins.securityPinHash)

\* C20: savePins validates both PINs.  A savePins whose pair is not
\* well-formed (a PIN missing, a length outside 4..6, a non-digit, or two
\* equal PINs) is rejected in its first step and leaves config/pins
\* unchanged, and whenever hashes are stored they are the hashes of two
\* distinct digit-only PINs both of length 4 to 6.
C20_SavePinsValidates ==
  [][/\ \A p \in Procs :
          (Starts(p, "save") /\ ~WellFormedPair(chosen[1], chosen[2])) =>
            /\ pc'[p] = "done"
            /\ res'[p] \in {"rejected", "invalid-argument"}
            /\ pins' = pins
     /\ pins'.exists => StoredFromWellFormedPair']_vars

\* the PIN submitted by request p matches both stored hashes
MatchesBoth(pin) ==
  /\ pin # NoPin
  /\ Compare(pin, pins.normalPinHash)
  /\ Compare(pin, pins.securityPinHash)

\* request p is a verifyPin in its normal branch (logUnlock)
InNormalBranch(p) == pc[p] \in {"unlock_add", "unlock_stats"}

\* C21: the normal hash is compared first.  A verifyPin whose PIN matches
\* the normal hash (a PIN that matches both stored hashes included) takes
\* the normal branch and changes no alert, user field or message; the
\* security branch is entered only with a PIN that failed the normal hash
\* and matches the security hash; and the normal branch writes nothing but
\* a "normal" unlock record and the unlock counters, runs no activate and
\* returns mode normal.
C21_NormalHashFirst ==
  [][\A p \in Procs :
       /\ (Starts(p, "verify") /\ arg'[p] # NoPin /\ Compare(arg'[p], pins.normalPinHash)) =>
            /\ pc'[p] = "unlock_add"
            /\ UNCHANGED <<user, alerts, sent>>
       /\ (Starts(p, "verify") /\ pc'[p] = "vp_activate") =>
            /\ ~Compare(arg'[p], pins.normalPinHash)
            /\ Compare(arg'[p], pins.securityPinHash)
       /\ (InNormalBranch(p) /\ pc'[p] # pc[p]) =>
            /\ UNCHANGED <<user, alerts, sent, failed>>
            /\ pc'[p] \in {"unlock_stats", "done"}
            /\ unlocks' \in {unlocks, Append(unlocks, "normal")}
            /\ stats' \in {stats, IncUnlocks(stats)}
            /\ pc'[p] = "done" => ModeReturned(p)' = "normal"]_vars

\* a PIN that matches both stored hashes has been recorded as a normal
\* unlock, with no alert and the mode still normal
C21_Witness ==
  \E p \in Procs :
    /\ pc[p] = "unlock_stats"
    /\ MatchesBoth(arg[p])
    /\ unlocks = <<"normal">>
    /\ alerts = <<>>
    /\ user.currentMode = "normal"

\* the PINs that differ from x in their digits only
SameLength(x) == {y \in PinInputs : Len(y) = Len(x)}

\* C22: the submitted PIN is not persisted.  Whatever a step of verifyPin
\* writes to the alerts, the failed-attempt records, the unlock history or
\* the user record is what the same step writes for every other PIN of the
\* same length in the same branch: the classification step writes nothing,
\* the no-match branch adds the record of the length and the counter, the
\* normal branch a "normal" unlock and its counters, and the security
\* branch the alert whose details name the length.
C22_PinValueNotPersisted ==
  [][\A p \in Procs :
       /\ Starts(p, "verify") => UNCHANGED <<user, alerts, failed, unlocks, stats>>
       /\ (pc[p] = "fail_add" /\ pc'[p] # pc[p]) =>
            /\ \A y \in SameLength(arg[p]) :
                 failed' \in {failed, Append(failed, FailedRecord(y))}
            /\ UNCHANGED <<user, alerts, unlocks, stats>>
       /\ (pc[p] = "fail_stats" /\ pc'[p] # pc[p]) =>
            /\ stats' \in {stats, IncFailedAttempts(stats)}
            /\ UNCHANGED <<user, alerts, unlocks, failed>>
       /\ (pc[p] = "unlock_add" /\ pc'[p] # pc[p]) =>
            /\ unlocks' \in {unlocks, Append(unlocks, "normal")}
            /\ UNCHANGED <<user, alerts, failed, stats>>
       /\ (pc[p] = "unlock_stats" /\ pc'[p] # pc[p]) =>
            /\ stats' \in {stats, IncUnlocks(stats)}
            /\ UNCHANGED <<user, alerts, unlocks, failed>>
       /\ (pc[p] = "vp_activate" /\ pc'[p] # pc[p]) =>
            /\ \A y \in SameLength(arg[p]) :
                 \/ UNCHANGED <<user, alerts>>
                 \/ /\ alerts' = Append(alerts, PinAlertData(y, Now))
                    /\ user' = UserUpdate(user, Now)
            /\ UNCHANGED <<failed, unlocks, stats>>]_vars

\* two PINs of one length that match neither stored hash, and the
\* failed-attempt record of one of them
C22_Witness ==
  \E p \in Procs :
    /\ pc[p] = "fail_stats"
    /\ failed = <<Len(arg[p])>>
    /\ \E y \in SameLength(arg[p]) :
         /\ y # arg[p]
         /\ Classify(y, pins) = "fail_add"
         /\ Classify(arg[p], pins) = "fail_add"

\* this step is request p entering the phone verification callable `name`
EntersOtp(p, name) ==
  /\ Free(p)
  /\ op'[p] = name
  /\ <<pc[p], op[p], res[p]>>' # <<pc[p], op[p], res[p]>>

\* the stored challenge accepts a guess: it exists, has not expired and is
\* not locked
Open(doc, now) ==
  /\ doc.exists
  /\ now <= doc.expiresAt
  /\ doc.attempts < MaxOtpAttempts

\* request p is a verifySmscode that found its code correct
InSuccessPath(p) == pc[p] \in {"otp_user", "otp_delete"}

\* what C23 says apart from the outcome of the success path: a verify of an
\* open challenge is stopped only by a wrong code; the user update stores
\* the phone number of the challenge as verified; the call that returns
\* success has deleted the challenge; a deleted challenge comes back only
\* through the set of an issue; and a verify that finds no challenge ends
\* with not-found
SingleUse ==
  \A p \in Procs :
    /\ (EntersOtp(p, "verifycode") /\ Open(otp, clock)) =>
         \/ pc'[p] = "otp_user" /\ loc'[p].code = otp.code /\ loc'[p].phoneNumber = otp.phoneNumber
         \/ pc'[p] = "otp_inc" /\ loc'[p].code # otp.code
         \/ pc'[p] = "done" /\ res'[p] = "invalid-argument"
    /\ (EntersOtp(p, "verifycode") /\ pc'[p] = "otp_user") =>
         Open(otp, clock) /\ UNCHANGED <<otp, phone>>
    /\ (pc[p] = "otp_user" /\ pc'[p] = "otp_delete") =>
         /\ phone' = [verified |-> TRUE, number |-> loc[p].phoneNumber]
         /\ loc[p].phoneNumber \in PhoneNumbers
         /\ UNCHANGED otp
    /\ (InSuccessPath(p) /\ res'[p] = "ok") =>
         /\ pc[p] = "otp_delete"
         /\ phone.verified /\ UNCHANGED phone
         /\ ~otp'.exists
    /\ (~otp.exists /\ otp'.exists) => \E q \in Procs : pc[q] = "otp_set"
    /\ (EntersOtp(p, "verifycode") /\ ~otp.exists) =>
         /\ pc'[p] = "done"
         /\ res'[p] \in {"not-found", "invalid-argument"}
         /\ UNCHANGED <<otp, phone>>

Replaces(q) == pc[q] \in {"otp_set", "otp_delete"} /\ pc'[q] = "done"

\* C24: lockout.  Once 5 verify calls have been answered with a wrong-code
\* failure on the stored challenge, every verify that starts on it (before
\* it expires) ends at once with locked, the correct code included, and
\* changes nothing; and a challenge whose attempts have reached 5 keeps
\* them until an issue replaces it (or a verify already past its code check
\* deletes it): the lockout is never undone.
C24_LockoutAfterFiveWrong ==
  [][/\ \A p \in Procs :
          (EntersOtp(p, "verifycode") /\ wrong >= MaxOtpAttempts
             /\ otp.exists /\ clock <= otp.expiresAt) =>
            /\ pc'[p] = "done"
            /\ res'[p] = "locked"
            /\ UNCHANGED <<otp, phone>>
     /\ (otp.exists /\ otp.attempts >= MaxOtpAttempts /\ otp' # otp) =>
          \E q \in Procs : Replaces(q)]_vars

\* a verifySmscode call of process p ends in this step with result r
EndsVerify(p, r) ==
  /\ op'[p] = "verifycode"
  /\ <<pc[p], op[p], res[p]>>' # <<pc[p], op[p], res[p]>>
  /\ pc'[p] = "done"
  /\ res'[p] = r

\* C25: verify applies its checks in the order not-found, expired, locked,
\* mismatch, success.  A call that starts on a missing challenge ends with
\* not-found, on an expired one (locked or not) with expired, on a locked
\* unexpired one with locked, whatever its code, and only a call on an
\* open challenge goes on to the code comparison; a call answered with
\* mismatch has raised the stored attempts by exactly one and changed
\* nothing else, and a call ending with another failure has left the
\* challenge as it was.
C25_CheckPrecedence ==
  [][\A p \in Procs :
       /\ EntersOtp(p, "verifycode") =>
            IF ~otp.exists THEN EndsVerify(p, "not-found")
            ELSE IF clock > otp.expiresAt THEN EndsVerify(p, "expired")
            ELSE IF otp.attempts >= MaxOtpAttempts THEN EndsVerify(p, "locked")
            ELSE IF loc'[p].code # otp.code THEN pc'[p] = "otp_inc"
            ELSE pc'[p] = "otp_user"
       /\ EndsVerify(p, "mismatch") =>
            otp' = [otp EXCEPT !.attempts = otp.attempts + 1]
       /\ (\E r \in {"not-found", "expired", "locked", "invalid-argument", "internal"} :
             EndsVerify(p, r)) => UNCHANGED otp]_vars

\* C26: issue leaves exactly one challenge.  The set of an issue leaves the
\* challenge of that issue and nothing of an earlier one: a code the
\* service drew, the requested phone number, attempts 0, created now and
\* expiring ten minutes later; and once a challenge is replaced the code of
\* the earlier issue no longer succeeds: a verify that ends with success
\* on a stored challenge carried that challenge's code.
C26_IssueReplaces ==
  [][\A p \in Procs :
       /\ (pc[p] = "otp_set" /\ pc'[p] = "done" /\ res'[p] = "ok") =>
            \E code \in Codes :
              otp' = [exists |-> TRUE, code |-> code,
                      phoneNumber |-> loc[p].phoneNumber,
                      createdAt |-> clock, expiresAt |-> clock + TenMinutes,
                      attempts |-> 0]
       /\ (EndsVerify(p, "ok") /\ otp.exists) => loc[p].code = otp.code]_vars

\* process q runs getSecurityAlerts in this step
Lists(q) == Free(q) /\ calls' # calls /\ op'[q] = "getSecurityAlerts"

\* process p has completed an activate that created alert aid[p]
Activated(p) ==
  pc[p] = "done" /\ op[p] \in TriggerTypes /\ res[p] = "ok" /\ aid[p] # NoAlert

\* C27: a getSecurityAlerts that runs once an activate has completed
\* returns a list that contains the alert the activate created, with
\* status active, however many other unresolved alerts the user has.
C27_ListContainsNewAlert ==
  [][\A q \in Procs : Lists(q) =>
       \A p \in Procs : Activated(p) =>
         /\ aid[p] \in listed'[q]
         /\ alerts[aid[p]].status = "active"]_vars

\* process p is the one that a callable invoked in this step runs on
Called(p) == calls' # calls /\ Free(p) /\ \A q \in Procs : q < p => ~Free(q)

\* C28: every callable other than registerUser, invoked without a verified
\* caller identity, fails with unauthenticated, changes no stored state
\* and sends no push.
C28_UnauthenticatedRejected ==
  [][\A p \in Procs : (Called(p) /\ ~auth'[p]) =>
       /\ pc'[p] = "done"
       /\ res'[p] = "unauthenticated"
       /\ UNCHANGED <<user, alerts, sent, pins, setup, stats, failed, unlocks,
                      otp, phone, secEvents>>]_vars

\* request p is in one of verifyPin's logging helpers
InLogUnlock(p) == pc[p] \in {"unlock_add", "unlock_stats"}
InLogFailedAttempt(p) == pc[p] \in {"fail_add", "fail_stats"}

\* C29: side-channel logging is best-effort.  A step of logUnlock or
\* logFailedAttempt whose write is rejected (the history and the counters
\* stay as they were) ends verifyPin at once, and verifyPin, however its
\* logging went, returns the classification it had made: mode normal after
\* a normal match, mode null after no match, never an error.
C29_LoggingBestEffort ==
  [][\A p \in Procs :
       /\ (InLogUnlock(p) /\ pc'[p] # pc[p]) =>
            /\ pc'[p] = "done" => res'[p] = "normal"
            /\ UNCHANGED <<unlocks, stats>> => pc'[p] = "done"
       /\ (InLogFailedAttempt(p) /\ pc'[p] # pc[p]) =>
            /\ pc'[p] = "done" => res'[p] = "null"
            /\ UNCHANGED <<failed, stats>> => pc'[p] = "done"]_vars

\* a normal match and a mismatch have both been answered although none of
\* their writes was applied
C29_Witness ==
  /\ \E p \in Procs : op[p] = "verify" /\ pc[p] = "done" /\ res[p] = "normal"
  /\ \E q \in Procs : op[q] = "verify" /\ pc[q] = "done" /\ res[q] = "null"
  /\ logErrors > 0
  /\ pins.exists
  /\ unlocks = <<>>
  /\ failed = <<>>
  /\ stats = NewStats

\* a lock or wipe request naming an existing alert starts on process p
\* while the user has no registered push token
StartsCommandWithoutToken(p) ==
  /\ Called(p)
  /\ op'[p] \in {"lock", "wipe"}
  /\ AlertExists(aid'[p])
  /\ user.fcmToken = NoToken

\* C30 as stated: the token lookup comes before the audit write, so a lock
\* or wipe request for a user with no registered push token returns at the
\* lookup and leaves the commands map of the named alert unchanged.
C30_LookupBeforeAudit ==
  [][\A p \in Procs : StartsCommandWithoutToken(p) =>
       /\ pc'[p] = "done"
       /\ alerts' = alerts]_vars

\* C30, amended: the audit write comes before the token lookup.  A lock or
\* wipe request for a user with no registered push token first writes the
\* pending entry of its command on the named alert, changing nothing else,
\* and only then goes to the lookup; it returns before the lookup only when
\* that write is rejected, with internal and the alerts unchanged.  A
\* request that is at the lookup has its entry on the alert.
C30_AuditBeforeLookup ==
  [][\A p \in Procs :
       /\ StartsCommandWithoutToken(p) =>
            \/ /\ pc'[p] = "cmd_read"
               /\ alerts' = [alerts EXCEPT
                    ![aid'[p]].commands[AuditKey(op'[p])] = AuditEntry(Now)]
            \/ /\ pc'[p] = "done"
               /\ res'[p] = "internal"
               /\ alerts' = alerts
       /\ (op[p] \in {"lock", "wipe"} /\ pc[p] = "cmd_read") =>
            HasPendingEntry(aid[p], AuditKey(op[p]))]_vars

\* a wipe for a user who never registered a token stands at the token
\* lookup with its pending entry already on the alert
C30_Witness ==
  \E p \in Procs :
    /\ op[p] = "wipe" /\ pc[p] = "cmd_read"
    /\ user.fcmToken = NoToken
    /\ sent = <<>>
    /\ calls = 2
    /\ HasPendingEntry(aid[p], "wipeData")

\* C31: the three mode fields of the user record agree in every reachable
\* state, under any interleaving of activates and deactivates: currentMode
\* is security exactly when security.alertActive is true, and exactly when
\* security.modeActivatedAt is set.
C31_ModeFieldsAgree ==
  /\ user.currentMode \in {"normal", "security"}
  /\ (user.currentMode = "security") <=> user.alertActive
  /\ user.alertActive <=> (user.modeActivatedAt # Null)

\* a deactivate has returned, the user is back to normal with one alert
\* resolved as a false alarm and another one still active
C31_Witness ==
  /\ user.currentMode = "normal"
  /\ \E i \in 1..Len(alerts) : alerts[i].status = "resolved" /\ alerts[i].resolutionType = "false_alarm"
  /\ \E i \in 1..Len(alerts) : alerts[i].status = "active"
  /\ \E p \in Procs : op[p] = "deactivate" /\ pc[p] = "done" /\ res[p] = "ok"

\* C32: a deactivate whose alertId names no existing alert of the caller
\* fails at once: the step that starts it ends it with an error, the user's
\* mode fields and the alerts are as before (no alert is created), and
\* nothing is handed to the push provider.
C32_DeactivateUnknownAlert ==
  [][\A p \in Procs :
       (Called(p) /\ op'[p] = "deactivate" /\ ~AlertExists(aid'[p])) =>
         /\ pc'[p] = "done"
         /\ res'[p] \in {"invalid-argument", "internal"}
         /\ UNCHANGED <<user, alerts, sent>>]_vars

\* a deactivate naming an alert that does not exist has failed while the
\* user is in security mode with a registered token
C32_Witness ==
  \E p \in Procs :
    /\ op[p] = "deactivate" /\ pc[p] = "done" /\ res[p] = "internal"
    /\ aid[p] # NoAlert /\ ~AlertExists(aid[p])
    /\ user.currentMode = "security"
    /\ user.fcmToken # NoToken

\* C33: verifyPin returns mode security exactly when that call committed a
\* new active alert and the switch to security mode.  A call that ends in
\* the security branch before its batch is committed returns mode null and
\* has changed neither the user nor the alerts; a call that ends after its
\* batch was committed returns mode security, and its alert is there,
\* created by that call.
C33_SecurityIffCommitted ==
  [][\A p \in Procs : (InSecurityBranch(p) /\ pc'[p] = "done") =>
       IF pc[p] = "vp_activate"
         THEN /\ ModeReturned(p)' = "null"
              /\ UNCHANGED <<user, alerts>>
         ELSE /\ ModeReturned(p)' = "security"
              /\ AlertExists(aid[p])
              /\ alerts[aid[p]].type = PinTrigger]_vars

\* C34: no lost update of the attempts counter.  Under any interleaving of
\* verify calls on one challenge, the stored attempts count every call
\* that was answered with mismatch since the challenge was issued, so that
\* at most 5 calls are answered with mismatch before a re-issue.
C34_NoLostUpdate ==
  /\ wrong <= MaxOtpAttempts
  /\ otp.exists => otp.attempts = wrong

\* C35: at most one concurrent success.  Of the verify calls that carry the
\* correct code of one issued challenge, at most one succeeds and the
\* others fail with not-found: every call that ends with success has
\* consumed the challenge, which was still stored when it deleted it.
C35_AtMostOneSuccess ==
  [][\A p \in Procs : EndsVerify(p, "ok") => otp.exists]_vars

\* C36: the invalid-token cleanup clears only the token the provider
\* rejected.  When a send helper runs its cleanup after updateFCMToken has
\* stored another token than the one the send had read, the newly stored
\* token is still there once the cleanup has finished.
C36_CleanupKeepsNewToken ==
  [][\A p \in Procs :
       (pc[p] \in {"push_cleanup", "cmd_cleanup"} /\ pc'[p] # pc[p]
          /\ user.fcmToken # NoToken /\ user.fcmToken # tok[p]) =>
         user'.fcmToken = user.fcmToken]_vars

\* C37: every operation stays within the authenticated caller's own
\* records.  Every message handed to the push provider is addressed to a
\* token of the caller's own user record, never to another user's device,
\* and every security_events document is attributed to the caller.
C37_OwnRecordsOnly ==
  /\ \A i \in 1..Len(sent) : sent[i].token # OtherToken
  /\ \A i \in 1..Len(secEvents) : secEvents[i] = Caller

\* a step of request q while it is a changePins call that awaits verifyPin
ChangeStep(q) ==
  /\ change'[q] # NoChange
  /\ <<pc[q], op[q], res[q]>>' # <<pc[q], op[q], res[q]>>

\* C38: changePins leaves the mode state machine untouched.  Whatever
\* currentPin a changePins call carries, no step of the call creates a
\* security alert or changes currentMode, alertActive or modeActivatedAt.
C38_ChangePinsKeepsMode ==
  [][\A q \in Procs :
       ChangeStep(q) =>
         /\ Len(alerts') = Len(alerts)
         /\ user'.currentMode = user.currentMode
         /\ user'.alertActive = user.alertActive
         /\ user'.modeActivatedAt = user.modeActivatedAt]_vars

\* C39: the alert lifecycle is one-way.  An alert whose status is active
\* has no resolutionType and no resolvedAt, and no step takes an alert
\* whose status is resolved back to any other status.
C39_LifecycleOneWay ==
  /\ [](\A i \in 1..Len(alerts) :
          alerts[i].status = "active" =>
            alerts[i].resolutionType = "none" /\ alerts[i].resolvedAt = Null)
  /\ [][\A i \in 1..Len(alerts) :
          alerts[i].status = "resolved" => alerts'[i].status = "resolved"]_vars

\* an alert was resolved and a later trigger has activated security mode
\* again: the resolved alert is still resolved, next to the new active one
C39_Witness ==
  \E i, j \in 1..Len(alerts) :
    /\ alerts[i].status = "resolved"
    /\ alerts[i].resolutionType # "none"
    /\ alerts[i].resolvedAt # Null
    /\ alerts[j].status = "active"
    /\ alerts[j].timestamp > alerts[i].resolvedAt
====
